---- MODULE Spec2Model ----
(***************************************************************************)
(* Stable table-id allocation and snapshot reconciliation of the poker     *)
(* dashboard (apps/server/web/templates/static/poker-app.js).              *)
(*                                                                         *)
(* Strings are sequences of one-character strings, so that formatting      *)
(* (toString, padStart, template strings) is computed, not assumed.        *)
(* A JavaScript Map is a function whose DOMAIN is the set of its keys.     *)
(***************************************************************************)
EXTENDS Naturals, Integers, Sequences, FiniteSets, TLC

\* ------------------------------------------------------------------------
\* Program constant and bounds of the model
\* ------------------------------------------------------------------------
MAX_TABLES == 6

\* longest snapshot delivered
MaxSnapshotLen == 2

\* largest value the counter may reach under Spec and SpecCorrupt
MaxNextTableId == 4

\* largest value the counter may reach under SpecDiff and SpecStore
MaxSmallTableId == MaxNextTableId - 1

\* largest value the counter may reach under SpecChurn and SpecWide
MaxChurnTableId == 8

\* most pending timeouts of each kind
MaxPendingTimers == 1

\* most fetches of /api/detections awaiting their response
MaxInFlight == 2

\* ------------------------------------------------------------------------
\* Input domains
\* ------------------------------------------------------------------------
Digits == <<"0", "1", "2", "3", "4", "5", "6", "7", "8", "9">>

Detection(c, w, cards) ==
    [client_id |-> c, window_name |-> w, player_cards_string |-> cards]

TableA == Detection(<<"A">>, <<"T">>, <<"A", "h">>)

TableANewHand == Detection(<<"A">>, <<"T">>, <<"K", "s">>)

TableB == Detection(<<"B">>, <<"T">>, <<"A", "h">>)

\* client "A_" with window "T", and client "A" with window "_T"
TableUnderscoreClient == Detection(<<"A", "_">>, <<"T">>, <<"A", "h">>)

TableUnderscoreWindow == Detection(<<"A">>, <<"_", "T">>, <<"K", "s">>)

\* two tables
Detections == {TableA, TableB}

\* two tables, one of them seen with two different hands
ChangingDetections == {TableA, TableANewHand, TableB}

\* seven tables of one client: one more than the grid holds
WideSnapshot ==
    [i \in 1..(MAX_TABLES + 1) |->
        Detection(<<"A">>, <<"T", Digits[i + 1]>>, <<"A", "h">>)]

SeqsUpTo(S, n) == UNION {[1..k -> S] : k \in 0..n}

\* a JavaScript value that is either undefined or an array
Arr(s) == [defined |-> TRUE, items |-> s]

Undefined == [defined |-> FALSE, items |-> <<>>]

\* the `detections` member of a response body: an array, or missing
PayloadsOf(D) == {Arr(s) : s \in SeqsUpTo(D, MaxSnapshotLen)} \cup {Undefined}

Payloads == PayloadsOf(Detections)

ChangingPayloads == PayloadsOf(ChangingDetections)

\* the first n of the seven tables, for the n given
WidePayloads ==
    {Arr(SubSeq(WideSnapshot, 1, n)) : n \in {0, 1, MAX_TABLES, MAX_TABLES + 1}}

\* ------------------------------------------------------------------------
\* String helpers
\* ------------------------------------------------------------------------
RECURSIVE NumberToString(_)
\* Number.prototype.toString() of a non-negative integer
NumberToString(n) ==
    IF n < 10 THEN <<Digits[n + 1]>>
    ELSE NumberToString(n \div 10) \o <<Digits[(n % 10) + 1]>>

RECURSIVE PadStart(_, _, _)
\* String.prototype.padStart(targetLength, padString) for a one-char pad
PadStart(s, n, c) == IF Len(s) >= n THEN s ELSE PadStart(<<c>> \o s, n, c)

\* nextTableId.toString().padStart(2, '0')  and  i.toString().padStart(2, '0')
FormatId(n) == PadStart(NumberToString(n), 2, "0")

\* `${detection.client_id}_${detection.window_name}`
Key(d) == d.client_id \o <<"_">> \o d.window_name

KeysOf(s) == {Key(s[i]) : i \in 1..Len(s)}

\* detections || []
OrEmpty(v) == IF v.defined THEN v.items ELSE <<>>

\* ------------------------------------------------------------------------
\* The persisted record: localStorage item 'tableIdMapping'
\* ------------------------------------------------------------------------
\* getItem returns null: the item was never written
NoRecord == [kind |-> "null"]

\* JSON.stringify({mapping: tableIdMapping, nextId: nextTableId}): a Map is
\* written as {}
StringifyRecordOfMap(mapping, nextId) ==
    [kind |-> "json", top |-> "object", mappingType |-> "object",
     mapping |-> <<>>, str |-> <<>>, nextId |-> nextId]

\* JSON.stringify({mapping: Object.fromEntries(tableIdMapping), nextId: nextTableId})
\* The text is held by the value JSON.parse gives back for it: top is the type
\* of the outermost value, mappingType the type of its `mapping` member.
StringifyRecord(mapping, nextId) ==
    [kind |-> "json", top |-> "object", mappingType |-> "object",
     mapping |-> mapping, str |-> <<>>, nextId |-> nextId]

\* Object.entries(x) as a key -> value function; x is data.mapping.
\* A string has one entry per character, keyed by its index; a number or
\* boolean has none; undefined and null make Object.entries throw.
ObjectEntriesThrows(data) == data.mappingType \in {"undefined", "null"}

ObjectEntries(data) ==
    CASE data.mappingType = "object" -> data.mapping
      [] data.mappingType = "string" ->
            [k \in {NumberToString(i - 1) : i \in 1..Len(data.str)} |->
                <<data.str[(CHOOSE i \in 1..Len(data.str) : NumberToString(i - 1) = k)]>>]
      [] OTHER -> <<>>

\* the allocator's memory and the store it writes through to
\*   mapping  : tableIdMapping      nextId   : nextTableId
\*   storage  : the persisted item  writable : localStorage.setItem succeeds
\*   threw    : an exception is propagating
\*   writes   : calls of localStorage.setItem made so far
AllocState(mapping, nextId, storage, writable) ==
    [mapping |-> mapping, nextId |-> nextId, storage |-> storage,
     writable |-> writable, threw |-> FALSE, writes |-> 0]

\* loadTableIdMapping restoring the mapping and leaving the counter alone
LoadTableIdMappingCounterLost(m) ==
    IF m.storage.kind = "json" /\ m.storage.top = "object"
       /\ ~ObjectEntriesThrows(m.storage)
    THEN [m EXCEPT !.mapping = ObjectEntries(m.storage)]
    ELSE m

\* loadTableIdMapping: every failure is caught and leaves the globals as they are
LoadTableIdMapping(m) ==
    LET stored == m.storage IN
    IF stored.kind = "throws" THEN m                   \* getItem throws: caught
    ELSE IF stored.kind \in {"null", "empty"} THEN m   \* if (stored) is false
    ELSE IF stored.kind = "invalid" THEN m             \* JSON.parse throws: caught
    ELSE IF stored.top # "object" THEN
        \* null.mapping throws; a number or string has no `mapping` member and
        \* Object.entries(undefined) throws: caught
        m
    ELSE IF ObjectEntriesThrows(stored) THEN m
    ELSE [m EXCEPT !.mapping = ObjectEntries(stored),
                   !.nextId = IF stored.nextId = 0 THEN 1 ELSE stored.nextId]

\* saveTableIdMapping with the catch removed: a failing setItem propagates
SaveTableIdMappingNoCatch(m) ==
    IF m.threw THEN m
    ELSE IF m.writable
         THEN [m EXCEPT !.storage = StringifyRecord(m.mapping, m.nextId),
                        !.writes = @ + 1]
         ELSE [m EXCEPT !.threw = TRUE, !.writes = @ + 1]

\* saveTableIdMapping: a failing setItem is caught (console.warn)
SaveTableIdMapping(m) ==
    IF m.threw THEN m
    ELSE IF m.writable
         THEN [m EXCEPT !.storage = StringifyRecord(m.mapping, m.nextId),
                        !.writes = @ + 1]
         ELSE [m EXCEPT !.writes = @ + 1]

\* Map.prototype.set
MapSet(f, k, v) == [x \in (DOMAIN f) \cup {k} |-> IF x = k THEN v ELSE f[x]]

\* assignStableTableId saving on every call
AssignStableTableIdAlwaysSaves(m, d) ==
    IF m.threw THEN m
    ELSE IF Key(d) \notin DOMAIN m.mapping
         THEN SaveTableIdMapping(
                [m EXCEPT !.mapping = MapSet(m.mapping, Key(d), FormatId(m.nextId)),
                          !.nextId = m.nextId + 1])
         ELSE SaveTableIdMapping(m)

\* assignStableTableId saving the record before it changes the Map
AssignStableTableIdSavesFirst(m, d) ==
    IF m.threw THEN m
    ELSE IF Key(d) \notin DOMAIN m.mapping
         THEN [SaveTableIdMapping(m) EXCEPT
                    !.mapping = MapSet(m.mapping, Key(d), FormatId(m.nextId)),
                    !.nextId = m.nextId + 1]
         ELSE m

\* assignStableTableId: the state it leaves; the id it returns is AssignedId
AssignStableTableId(m, d) ==
    IF m.threw THEN m
    ELSE IF Key(d) \notin DOMAIN m.mapping
         THEN SaveTableIdMapping(
                [m EXCEPT !.mapping = MapSet(m.mapping, Key(d), FormatId(m.nextId)),
                          !.nextId = m.nextId + 1])
         ELSE m

\* return tableIdMapping.get(key)
AssignedId(m, d) == m.mapping[Key(d)]

\* cleanupStaleTableMappings emptying the Map as soon as one key is stale
CleanupClearsAll(m, activeDetections) ==
    IF m.threw \/ (DOMAIN m.mapping) \subseteq KeysOf(activeDetections) THEN m
    ELSE SaveTableIdMapping([m EXCEPT !.mapping = <<>>])

\* cleanupStaleTableMappings deleting nothing
CleanupKeepsAll(m, activeDetections) == m

\* cleanupStaleTableMappings deleting in memory only
CleanupNeverSaves(m, activeDetections) ==
    IF m.threw THEN m
    ELSE [m EXCEPT !.mapping = [k \in (DOMAIN m.mapping) \cap KeysOf(activeDetections)
                                   |-> m.mapping[k]]]

\* cleanupStaleTableMappings saving whether or not it deleted a key
CleanupAlwaysSaves(m, activeDetections) ==
    IF m.threw THEN m
    ELSE SaveTableIdMapping(
            [m EXCEPT !.mapping = [k \in (DOMAIN m.mapping) \cap KeysOf(activeDetections)
                                      |-> m.mapping[k]]])

\* cleanupStaleTableMappings starting the counter anew once the Map is empty
CleanupResetsCounter(m, activeDetections) ==
    IF m.threw \/ (DOMAIN m.mapping) \subseteq KeysOf(activeDetections) THEN m
    ELSE SaveTableIdMapping(
            [m EXCEPT !.mapping = [k \in (DOMAIN m.mapping) \cap KeysOf(activeDetections)
                                      |-> m.mapping[k]],
                      !.nextId = IF (DOMAIN m.mapping) \cap KeysOf(activeDetections) = {}
                                 THEN 1 ELSE @])

\* cleanupStaleTableMappings
CleanupStaleTableMappings(m, activeDetections) ==
    LET activeKeys == KeysOf(activeDetections)
        kept == (DOMAIN m.mapping) \cap activeKeys
        cleaned == kept # DOMAIN m.mapping
        after == [m EXCEPT !.mapping = [k \in kept |-> m.mapping[k]]]
    IN  IF m.threw THEN m
        ELSE IF cleaned THEN SaveTableIdMapping(after) ELSE after

\* ------------------------------------------------------------------------
\* Snapshot differencer
\* ------------------------------------------------------------------------
\* the characters JSON.stringify writes for a string: quoted, quotes and
\* backslashes escaped
RECURSIVE EscapeChars(_)
EscapeChars(s) ==
    IF s = <<>> THEN <<>>
    ELSE (IF Head(s) \in {"\"", "\\"} THEN <<"\\", Head(s)>> ELSE <<Head(s)>>)
         \o EscapeChars(Tail(s))

QuoteString(s) == <<"\"">> \o EscapeChars(s) \o <<"\"">>

\* the members are written in the order the backend serialises them; a
\* member's name and its punctuation are one token
StringifyDetection(d) ==
    <<"{\"client_id\":">> \o QuoteString(d.client_id)
    \o <<",\"player_cards_string\":">> \o QuoteString(d.player_cards_string)
    \o <<",\"window_name\":">> \o QuoteString(d.window_name)
    \o <<"}">>

RECURSIVE StringifyItems(_)
StringifyItems(s) ==
    IF s = <<>> THEN <<>>
    ELSE StringifyDetection(Head(s))
         \o (IF Len(s) > 1 THEN <<",">> ELSE <<>>)
         \o StringifyItems(Tail(s))

\* JSON.stringify of undefined is undefined, of an array its text
JsonStringify(v) ==
    IF v.defined
    THEN [defined |-> TRUE, text |-> <<"[">> \o StringifyItems(v.items) \o <<"]">>]
    ELSE [defined |-> FALSE, text |-> <<>>]

\* detectChanges comparing the number of detections only
DetectChangesByLength(newDetections, previous) ==
    newDetections.defined # previous.defined
    \/ Len(newDetections.items) # Len(previous.items)

\* detectChanges, with previousDetections passed in
DetectChanges(newDetections, previous) ==
    LET newStr == JsonStringify(newDetections)
        prevStr == JsonStringify(previous)
    IN  newStr # prevStr

\* ------------------------------------------------------------------------
\* Slot renderer
\* ------------------------------------------------------------------------
\* one element table-slot-<label>: its class, the detection its markup shows
\* (none or one) and whether it carries the transient classes
\* (updated, new-cards, new-positions, new-moves, new-solver-link)
EmptySlot == [className |-> "empty", detection |-> <<>>, highlight |-> FALSE]

\* the active slot carrying the transient classes whatever isUpdate is
ActiveSlotAlwaysUpdated(d, isUpdate) ==
    [className |-> "active", detection |-> <<d>>, highlight |-> TRUE]

ActiveSlot(d, isUpdate) ==
    [className |-> "active", detection |-> <<d>>, highlight |-> isUpdate]

\* initializeTablesGrid: the grid as a function label -> slot
InitializeTablesGrid ==
    [l \in {FormatId(i) : i \in 1..MAX_TABLES} |-> EmptySlot]

DigitValue(c) == CHOOSE i \in 0..9 : Digits[i + 1] = c

RECURSIVE LocaleCompare(_, _)
\* idA.localeCompare(idB) for strings of decimal digits: -1, 0 or 1
LocaleCompare(a, b) ==
    IF a = <<>> /\ b = <<>> THEN 0
    ELSE IF a = <<>> THEN -1
    ELSE IF b = <<>> THEN 1
    ELSE IF DigitValue(Head(a)) < DigitValue(Head(b)) THEN -1
    ELSE IF DigitValue(Head(a)) > DigitValue(Head(b)) THEN 1
    ELSE LocaleCompare(Tail(a), Tail(b))

PermutationsOf(S) ==
    {p \in [1..Cardinality(S) -> S] :
        \A i, j \in 1..Cardinality(S) : p[i] = p[j] => i = j}

\* the elements whose key has no id yet, each key at its first occurrence
Unmapped(items, mapping) ==
    {i \in 1..Len(items) :
        /\ Key(items[i]) \notin DOMAIN mapping
        /\ \A j \in 1..(i - 1) : Key(items[j]) # Key(items[i])}

\* The orders in which Array.prototype.sort may first hand the elements
\* without an id to the comparator (each call of the comparator assigns a, then
\* b): implementation-defined. An array of fewer than two elements is never
\* handed to the comparator. Elements that have an id are left out: their
\* assignStableTableId changes nothing.
ComparatorOrders(items, mapping) ==
    IF Len(items) < 2 THEN {<<>>} ELSE PermutationsOf(Unmapped(items, mapping))

\* The comparator is handed the elements in index order, or the second before
\* the first: two of the orders an engine may take.
RECURSIVE Ascending(_)
Ascending(S) ==
    IF S = {} THEN <<>>
    ELSE LET least == CHOOSE i \in S : \A j \in S : i <= j
         IN  <<least>> \o Ascending(S \ {least})

SwapFirstTwo(q) ==
    IF Len(q) < 2 THEN q ELSE <<q[2], q[1]>> \o SubSeq(q, 3, Len(q))

EngineOrders(items, mapping) ==
    IF Len(items) < 2 THEN {<<>>}
    ELSE {Ascending(Unmapped(items, mapping)),
          SwapFirstTwo(Ascending(Unmapped(items, mapping)))}

\* the comparator's orders a specification lets the engine take
OrdersOf(engine, items, mapping) ==
    IF engine = "any" THEN ComparatorOrders(items, mapping)
    ELSE EngineOrders(items, mapping)

RECURSIVE AssignInOrder(_, _, _)
\* the comparator's calls of assignStableTableId, first touches in `order`
AssignInOrder(m, items, order) ==
    IF order = <<>> THEN m
    ELSE AssignInOrder(AssignStableTableId(m, items[Head(order)]), items, Tail(order))

RECURSIVE InsertByIdBeforeEqual(_, _, _)
\* the sort putting x in front of the elements of equal id: not stable
InsertByIdBeforeEqual(sorted, x, m) ==
    IF sorted = <<>> THEN <<x>>
    ELSE IF LocaleCompare(AssignedId(m, Head(sorted)), AssignedId(m, x)) < 0
         THEN <<Head(sorted)>> \o InsertByIdBeforeEqual(Tail(sorted), x, m)
         ELSE <<x>> \o sorted

RECURSIVE InsertById(_, _, _)
\* x goes behind every element whose id is not greater: the sort is stable
InsertById(sorted, x, m) ==
    IF sorted = <<>> THEN <<x>>
    ELSE IF LocaleCompare(AssignedId(m, Head(sorted)), AssignedId(m, x)) <= 0
         THEN <<Head(sorted)>> \o InsertById(Tail(sorted), x, m)
         ELSE <<x>> \o sorted

RECURSIVE SortById(_, _, _)
\* detections.slice().sort(by assigned id), once every element has its id
SortById(items, acc, m) ==
    IF items = <<>> THEN acc
    ELSE SortById(Tail(items), InsertById(acc, Head(items), m), m)

RECURSIVE ForEachAssignByRank(_, _)
\* forEach filling detectionMap by rank in the sorted array, not by id
ForEachAssignByRank(sorted, r) ==
    IF sorted = <<>> \/ r.alloc.threw THEN r
    ELSE LET m2 == AssignStableTableId(r.alloc, Head(sorted))
         IN  IF m2.threw THEN [r EXCEPT !.alloc = m2]
             ELSE ForEachAssignByRank(Tail(sorted),
                    [alloc |-> m2,
                     detectionMap |-> MapSet(r.detectionMap,
                                             FormatId(Cardinality(DOMAIN r.detectionMap) + 1),
                                             Head(sorted))])

RECURSIVE ForEachAssign(_, _)
\* sortedDetections.forEach: [alloc, detectionMap]
ForEachAssign(sorted, r) ==
    IF sorted = <<>> \/ r.alloc.threw THEN r
    ELSE LET m2 == AssignStableTableId(r.alloc, Head(sorted))
         IN  IF m2.threw THEN [r EXCEPT !.alloc = m2]
             ELSE ForEachAssign(Tail(sorted),
                    [alloc |-> m2,
                     detectionMap |-> MapSet(r.detectionMap,
                                             AssignedId(m2, Head(sorted)),
                                             Head(sorted))])

\* the paint loop touching only the slots that have a detection
PaintSlotsActiveOnly(g, detectionMap, isUpdate) ==
    [l \in DOMAIN g |->
        IF l \in DOMAIN detectionMap
        THEN [className |-> "active", detection |-> <<detectionMap[l]>>,
              highlight |-> isUpdate]
        ELSE g[l]]

\* the paint loop over the fixed grid positions 1..MAX_TABLES
PaintSlots(g, detectionMap, isUpdate) ==
    LET painted == {FormatId(i) : i \in 1..MAX_TABLES} \cap DOMAIN g
    IN  [l \in DOMAIN g |->
            IF l \notin painted THEN g[l]
            ELSE IF l \in DOMAIN detectionMap
                 THEN ActiveSlot(detectionMap[l], isUpdate)
                 ELSE EmptySlot]

\* renderCards calling cleanupStaleTableMappings after the assignments
RenderCardsCleanupLast(g, m, detections, isUpdate, order) ==
    LET g1 == IF DOMAIN g = {} THEN InitializeTablesGrid ELSE g
        items == OrEmpty(detections)
        m2 == IF Len(items) > 0 THEN AssignInOrder(m, items, order) ELSE m
        r == IF Len(items) > 0 /\ ~m2.threw
             THEN ForEachAssign(SortById(items, <<>>, m2),
                                [alloc |-> m2, detectionMap |-> <<>>])
             ELSE [alloc |-> m2, detectionMap |-> <<>>]
        m3 == CleanupStaleTableMappings(r.alloc, items)
    IN  [grid |-> PaintSlots(g1, r.detectionMap, isUpdate), alloc |-> m3,
         afterCleanup |-> m3.mapping,
         detectionMap |-> r.detectionMap, scheduled |-> isUpdate]

\* renderCards(detections, isUpdate):
\*   [grid, alloc, afterCleanup, detectionMap, scheduled]
\* g is the grid (no slot when #content holds no .tables-grid), order the
\* comparator's order, afterCleanup the mapping cleanupStaleTableMappings left;
\* scheduled tells that the 2000 ms highlight-clear timeout was set.
RenderCards(g, m, detections, isUpdate, order) ==
    LET g1 == IF DOMAIN g = {} THEN InitializeTablesGrid ELSE g
        items == OrEmpty(detections)
        m1 == CleanupStaleTableMappings(m, items)
        m2 == IF Len(items) > 0 THEN AssignInOrder(m1, items, order) ELSE m1
        r == IF Len(items) > 0 /\ ~m2.threw
             THEN ForEachAssign(SortById(items, <<>>, m2),
                                [alloc |-> m2, detectionMap |-> <<>>])
             ELSE [alloc |-> m2, detectionMap |-> <<>>]
    IN  IF r.alloc.threw
        THEN [grid |-> g1, alloc |-> r.alloc, afterCleanup |-> m1.mapping,
              detectionMap |-> r.detectionMap, scheduled |-> FALSE]
        ELSE [grid |-> PaintSlots(g1, r.detectionMap, isUpdate), alloc |-> r.alloc,
              afterCleanup |-> m1.mapping,
              detectionMap |-> r.detectionMap, scheduled |-> isUpdate]

\* ------------------------------------------------------------------------
\* State of one browser tab and of the origin's localStorage
\* ------------------------------------------------------------------------
VARIABLES
    tableIdMapping,      \* Map key -> SlotId
    nextTableId,         \* allocation counter
    previousDetections,  \* the snapshot of the last completed pass
    storage,             \* localStorage item 'tableIdMapping'
    storageWritable,     \* localStorage.setItem succeeds
    grid,                \* slots of .tables-grid by label; no slot: no grid yet
    updateIndicator,     \* #updateIndicator carries the class show
    timers,              \* pending timeouts: [indicator, highlight] counts
    connectionStatus,    \* class of #connectionStatus
    initialized,         \* initialize() has run in this page
    pollingActive,       \* the flag of startPolling / stopPolling
    pollingInterval,     \* live setInterval timers that poll (0 or 1)
    inFlight,            \* fetches of /api/detections not yet answered
    lastETag,            \* ETag of the last 200 response, or null
    hidden,              \* document.hidden
    lastPass,            \* what the last handler did (observation only)
    sse,                 \* the page of the server-sent-events dashboard
    sock,                \* the page of the push-socket client view
    loop                 \* async functions of the polling dashboard that are
                         \* suspended: bodies being read, the continuation that
                         \* is running, initialize() at its awaits

vars == <<tableIdMapping, nextTableId, previousDetections, storage, storageWritable,
          grid, updateIndicator, timers, connectionStatus, initialized,
          pollingActive, pollingInterval, inFlight, lastETag, hidden, lastPass, sse,
          sock, loop>>

\* the state of the polling dashboard
pollVars == <<tableIdMapping, nextTableId, previousDetections, storage,
              storageWritable, grid, updateIndicator, timers, connectionStatus,
              initialized, pollingActive, pollingInterval, inFlight, lastETag,
              hidden, lastPass, loop>>

\* The page of the server-sent-events dashboard (src/templates/static/poker-app.js)
\* when its script has been evaluated and initialize() waits for loadConfig:
\*   eventSource        : readyState of the object the global refers to, or null
\*   others             : EventSource objects the global no longer refers to
\*                        that are not closed, counted by readyState
\*   previousDetections : the global of that name
\*   content            : the detections #content shows (none: the notice)
\*   highlight          : the content carries the transient classes
\*   timers             : pending timeouts by kind
\*   last               : what the last handler did (observation only)
SSEPage ==
    [initialized |-> FALSE, eventSource |-> "null",
     others |-> [connecting |-> 0, open |-> 0],
     connectionStatus |-> "none", previousDetections |-> Arr(<<>>),
     content |-> <<>>, highlight |-> FALSE, updateIndicator |-> FALSE,
     timers |-> [indicator |-> 0, highlight |-> 0, reconnect |-> 0],
     last |-> "none"]

\* The page of the push-socket client view (src/web/templates/static/client-app.js)
\* when its script has been evaluated and initialize() waits for loadConfig:
\*   clientId           : window.CLIENT_ID
\*   socket             : null, or the state of the socket the global refers to
\*   previousDetections : the global of that name
\*   content            : the detections #content shows (none: a notice)
\*   highlight          : the content carries the transient classes
\*   timers             : pending timeouts by kind
\*   last               : what the last handler did (observation only)
SocketPage ==
    [initialized |-> FALSE, clientId |-> <<"A">>, socket |-> "null",
     connectionStatus |-> "none", previousDetections |-> Arr(<<>>),
     content |-> <<>>, highlight |-> FALSE, updateIndicator |-> FALSE,
     timers |-> [indicator |-> 0, highlight |-> 0, reconnect |-> 0],
     last |-> "none"]

\* no synchronous code of pollForUpdates is running
Idle == [pc |-> "idle"]

\* no response body is being read, nothing runs, and initialize() is not
\* suspended at its awaits (lines 598-599)
\* shown: the ETag of the response whose snapshot renderCards painted last
\* (observation only)
EventLoop ==
    [parsing |-> <<>>, task |-> Idle, initializing |-> FALSE, shown |-> "none"]

\* response.headers.get('ETag') when the response carries no such header
NoETag == "null"

NoPass == [op |-> "none"]

\* the state when the script has been evaluated (lines 9-14) and initialize()
\* has not run yet; records and writables are what the browser may hold
InitWith(records, writables) ==
    /\ tableIdMapping = <<>>
    /\ nextTableId = 1
    /\ previousDetections = Arr(<<>>)
    /\ storage \in records
    /\ storageWritable \in writables
    /\ grid = <<>>
    /\ updateIndicator = FALSE
    /\ timers = [indicator |-> 0, highlight |-> 0]
    /\ connectionStatus = "none"
    /\ initialized = FALSE
    /\ pollingActive = FALSE
    /\ pollingInterval = 0
    /\ inFlight = 0
    /\ lastETag = NoETag
    /\ hidden = FALSE
    /\ lastPass = NoPass
    /\ sse = SSEPage
    /\ sock = SocketPage
    /\ loop = EventLoop

\* initialize(): loadTableIdMapping, then startPolling: the flag is set, the
\* first request is issued and the 5000 ms interval is started
Initialize ==
    /\ UNCHANGED <<sse, sock, loop>>
    /\ ~initialized
    /\ ~pollingActive
    /\ \E m \in {LoadTableIdMapping(
                    AllocState(tableIdMapping, nextTableId, storage, storageWritable))} :
           /\ tableIdMapping' = m.mapping
           /\ nextTableId' = m.nextId
    /\ initialized' = TRUE
    /\ pollingActive' = TRUE
    /\ pollingInterval' = pollingInterval + 1
    /\ inFlight' = inFlight + 1
    /\ connectionStatus' = "connecting"
    /\ lastPass' = [op |-> "load", before |-> lastPass]
    /\ UNCHANGED <<previousDetections, storage, storageWritable, grid,
                   updateIndicator, timers, lastETag, hidden>>

\* updateClientsNavigation(detections): detections.map throws on undefined
UpdateClientsNavigationThrows(detections) == ~detections.defined

\* pollForUpdates from the response on (lines 495-526): the response was 200
\* with the header ETag: etag, and `detections` is data.detections. cap bounds
\* the counter and timerCap the pending timeouts of each kind. The request it
\* answers is accounted for by the action that uses it.
PollResponse(detections, order, cap, timerCap, etag) ==
    /\ UNCHANGED <<sse, sock, loop>>
    /\ initialized
    /\ inFlight > 0
    /\ lastETag' = etag
    /\ \E hasChanges \in {DetectChanges(detections, previousDetections)} :
       \E r \in {RenderCards(grid,
                    AllocState(tableIdMapping, nextTableId, storage, storageWritable),
                    detections, hasChanges, order)} :
       \E threw \in {r.alloc.threw \/ UpdateClientsNavigationThrows(detections)} :
           /\ r.alloc.nextId <= cap
           /\ hasChanges => timers.indicator < timerCap
           /\ r.scheduled => timers.highlight < timerCap
           /\ updateIndicator' = (updateIndicator \/ hasChanges)
           /\ timers' = [indicator |-> timers.indicator + (IF hasChanges THEN 1 ELSE 0),
                         highlight |-> timers.highlight + (IF r.scheduled THEN 1 ELSE 0)]
           /\ tableIdMapping' = r.alloc.mapping
           /\ nextTableId' = r.alloc.nextId
           /\ storage' = r.alloc.storage
           /\ grid' = r.grid
           /\ previousDetections' = IF threw THEN previousDetections ELSE detections
           /\ connectionStatus' = IF threw THEN "disconnected" ELSE "connected"
           /\ lastPass' = [op |-> "poll", detections |-> detections, etag |-> etag,
                           hasChanges |-> hasChanges, threw |-> threw,
                           rendered |-> ~r.alloc.threw,
                           writes |-> r.alloc.writes,
                           evicted |-> (DOMAIN tableIdMapping) \ (DOMAIN r.afterCleanup),
                           afterCleanup |-> r.afterCleanup,
                           detectionMap |-> r.detectionMap]
    /\ UNCHANGED <<storageWritable, initialized, pollingActive, pollingInterval,
                   hidden>>

\* a 200 response without ETag arrives and the interval's next tick issues the
\* next request; engine selects the comparator's orders
Poll(payloads, engine, cap, timerCap) ==
    /\ pollingActive
    /\ pollingInterval > 0
    /\ UNCHANGED inFlight
    /\ \E detections \in payloads :
        \E order \in OrdersOf(engine, OrEmpty(detections),
                          CleanupStaleTableMappings(
                              AllocState(tableIdMapping, nextTableId, storage,
                                         storageWritable),
                              OrEmpty(detections)).mapping) :
            PollResponse(detections, order, cap, timerCap, NoETag)

\* showUpdateIndicator's 1000 ms timeout
IndicatorTimerFires ==
    /\ UNCHANGED <<sse, sock, loop>>
    /\ timers.indicator > 0
    /\ timers' = [timers EXCEPT !.indicator = @ - 1]
    /\ updateIndicator' = FALSE
    /\ UNCHANGED <<tableIdMapping, nextTableId, previousDetections, storage,
                   storageWritable, grid, connectionStatus, initialized,
                   pollingActive, pollingInterval, inFlight, lastETag, hidden,
                   lastPass>>

\* the 2000 ms timeout removing no class
HighlightTimerFiresKeepsClasses ==
    /\ UNCHANGED <<sse, sock, loop>>
    /\ timers.highlight > 0
    /\ timers' = [timers EXCEPT !.highlight = @ - 1]
    /\ UNCHANGED <<tableIdMapping, nextTableId, previousDetections, storage,
                   storageWritable, grid, updateIndicator, connectionStatus,
                   initialized, pollingActive, pollingInterval, inFlight, lastETag,
                   hidden, lastPass>>

\* renderCards' 2000 ms timeout: every element carrying a transient class loses it
HighlightTimerFires ==
    /\ UNCHANGED <<sse, sock, loop>>
    /\ timers.highlight > 0
    /\ timers' = [timers EXCEPT !.highlight = @ - 1]
    /\ grid' = [l \in DOMAIN grid |-> [grid[l] EXCEPT !.highlight = FALSE]]
    /\ UNCHANGED <<tableIdMapping, nextTableId, previousDetections, storage,
                   storageWritable, updateIndicator, connectionStatus, initialized,
                   pollingActive, pollingInterval, inFlight, lastETag, hidden,
                   lastPass>>

\* The browser reloads the page: the script's globals, the document, the
\* pending timers and the pending fetches are gone, localStorage stays.
Reload(writables) ==
    /\ UNCHANGED <<sse, sock, loop>>
    /\ initialized
    /\ tableIdMapping' = <<>>
    /\ nextTableId' = 1
    /\ previousDetections' = Arr(<<>>)
    /\ grid' = <<>>
    /\ updateIndicator' = FALSE
    /\ timers' = [indicator |-> 0, highlight |-> 0]
    /\ connectionStatus' = "none"
    /\ initialized' = FALSE
    /\ pollingActive' = FALSE
    /\ pollingInterval' = 0
    /\ inFlight' = 0
    /\ lastETag' = NoETag
    /\ lastPass' = [op |-> "reload", mapping |-> tableIdMapping, nextId |-> nextTableId]
    /\ storageWritable' \in writables
    /\ UNCHANGED <<storage, hidden>>

\* ------------------------------------------------------------------------
\* The transport: requests, the answers a server may give, page visibility
\* ------------------------------------------------------------------------
\* startPolling without the test of pollingActive
StartPollingUnguarded ==
    /\ pollingActive' = TRUE
    /\ connectionStatus' = "connecting"
    /\ inFlight' = inFlight + 1
    /\ pollingInterval' = pollingInterval + 1

\* startPolling; the bound on inFlight is the caller's
StartPolling ==
    IF pollingActive
    THEN UNCHANGED <<pollingActive, pollingInterval, inFlight, connectionStatus>>
    ELSE /\ pollingActive' = TRUE
         /\ connectionStatus' = "connecting"
         /\ inFlight' = inFlight + 1
         /\ pollingInterval' = pollingInterval + 1

\* stopPolling aborting the fetches that are under way
StopPollingAborts ==
    /\ pollingActive' = FALSE
    /\ pollingInterval' = 0
    /\ connectionStatus' = "disconnected"
    /\ inFlight' = 0

\* stopPolling; a fetch that is under way is not aborted
StopPolling ==
    /\ pollingActive' = FALSE
    /\ pollingInterval' = 0
    /\ connectionStatus' = "disconnected"
    /\ UNCHANGED inFlight

\* the interval's callback giving up once the status is disconnected
IntervalFiresWhileConnected ==
    /\ UNCHANGED <<sse, sock, loop>>
    /\ pollingInterval > 0
    /\ pollingActive
    /\ connectionStatus # "disconnected"
    /\ inFlight < MaxInFlight
    /\ inFlight' = inFlight + 1
    /\ lastPass' = [op |-> "request", ifNoneMatch |-> lastETag, after |-> lastPass.op]
    /\ UNCHANGED <<tableIdMapping, nextTableId, previousDetections, storage,
                   storageWritable, grid, updateIndicator, timers, connectionStatus,
                   initialized, pollingActive, pollingInterval, lastETag, hidden>>

\* the 5000 ms interval's callback: pollForUpdates up to the fetch
IntervalFires ==
    /\ UNCHANGED <<sse, sock, loop>>
    /\ pollingInterval > 0
    /\ pollingActive
    /\ inFlight < MaxInFlight
    /\ inFlight' = inFlight + 1
    /\ lastPass' = [op |-> "request", ifNoneMatch |-> lastETag, after |-> lastPass.op]
    /\ UNCHANGED <<tableIdMapping, nextTableId, previousDetections, storage,
                   storageWritable, grid, updateIndicator, timers, connectionStatus,
                   initialized, pollingActive, pollingInterval, lastETag, hidden>>

\* a fetch is answered 200 with a body and an ETag header out of etags
Respond200(payloads, etags, cap, timerCap) ==
    /\ inFlight' = inFlight - 1
    /\ \E detections \in payloads, etag \in etags :
        \E order \in ComparatorOrders(OrEmpty(detections),
                          CleanupStaleTableMappings(
                              AllocState(tableIdMapping, nextTableId, storage,
                                         storageWritable),
                              OrEmpty(detections)).mapping) :
            PollResponse(detections, order, cap, timerCap, etag)

\* the 304 branch forgetting the ETag
Respond304ForgetsETag ==
    /\ UNCHANGED <<sse, sock, loop>>
    /\ initialized
    /\ inFlight > 0
    /\ inFlight' = inFlight - 1
    /\ connectionStatus' = "connected"
    /\ lastETag' = NoETag
    /\ lastPass' = [op |-> "notModified"]
    /\ UNCHANGED <<tableIdMapping, nextTableId, previousDetections, storage,
                   storageWritable, grid, updateIndicator, timers, initialized,
                   pollingActive, pollingInterval, hidden>>

\* a fetch is answered 304 Not Modified (lines 485-489)
Respond304 ==
    /\ UNCHANGED <<sse, sock, loop>>
    /\ initialized
    /\ inFlight > 0
    /\ inFlight' = inFlight - 1
    /\ connectionStatus' = "connected"
    /\ lastPass' = [op |-> "notModified"]
    /\ UNCHANGED <<tableIdMapping, nextTableId, previousDetections, storage,
                   storageWritable, grid, updateIndicator, timers, initialized,
                   pollingActive, pollingInterval, lastETag, hidden>>

\* a fetch is rejected, or answered with a status that is neither ok nor 304:
\* the catch of pollForUpdates; its 10000 ms timeout only logs
RespondError ==
    /\ UNCHANGED <<sse, sock, loop>>
    /\ initialized
    /\ inFlight > 0
    /\ inFlight' = inFlight - 1
    /\ connectionStatus' = "disconnected"
    /\ lastPass' = [op |-> "failed"]
    /\ UNCHANGED <<tableIdMapping, nextTableId, previousDetections, storage,
                   storageWritable, grid, updateIndicator, timers, initialized,
                   pollingActive, pollingInterval, lastETag, hidden>>

\* visibilitychange with document.hidden true
PageHidden ==
    /\ UNCHANGED <<sse, sock, loop>>
    /\ ~hidden
    /\ hidden' = TRUE
    /\ IF pollingActive
       THEN StopPolling
       ELSE UNCHANGED <<pollingActive, pollingInterval, inFlight, connectionStatus>>
    /\ lastPass' = [op |-> "hidden"]
    /\ UNCHANGED <<tableIdMapping, nextTableId, previousDetections, storage,
                   storageWritable, grid, updateIndicator, timers, initialized,
                   lastETag>>

\* visibilitychange with document.hidden false
PageVisible ==
    /\ UNCHANGED <<sse, sock, loop>>
    /\ initialized \/ loop.initializing
    /\ hidden
    /\ hidden' = FALSE
    /\ pollingActive \/ inFlight < MaxInFlight
    /\ StartPolling
    /\ lastPass' = [op |-> "visible"]
    /\ UNCHANGED <<tableIdMapping, nextTableId, previousDetections, storage,
                   storageWritable, grid, updateIndicator, timers, initialized,
                   lastETag>>

\* pageshow with event.persisted: the page comes back from the back/forward cache
PageShow ==
    /\ UNCHANGED <<sse, sock, loop>>
    /\ initialized \/ loop.initializing
    /\ pollingActive \/ inFlight < MaxInFlight
    /\ StartPolling
    /\ lastPass' = [op |-> "pageshow"]
    /\ UNCHANGED <<tableIdMapping, nextTableId, previousDetections, storage,
                   storageWritable, grid, updateIndicator, timers, initialized,
                   lastETag, hidden>>

\* ------------------------------------------------------------------------
\* The server-sent-events dashboard (src/templates/static/poker-app.js)
\* ------------------------------------------------------------------------
\* an EventSource that is connecting or open
Live(readyState) == readyState \in {"connecting", "open"}

\* s.others with one more object of the given readyState, when that is live
WithOther(s, readyState) ==
    IF Live(readyState)
    THEN [s.others EXCEPT ![readyState] = @ + 1]
    ELSE s.others

\* initializeSSE leaving the object it replaces as it is
InitializeSSENoClose(s) ==
    [s EXCEPT !.others = WithOther(s, s.eventSource),
              !.connectionStatus = "connecting",
              !.eventSource = "connecting"]

\* initializeSSE: the object the global refers to is closed, then a new one
\* is created and the global refers to it
InitializeSSE(s) ==
    [s EXCEPT !.others = WithOther(s, IF s.eventSource # "null" THEN "closed" ELSE "null"),
              !.connectionStatus = "connecting",
              !.eventSource = "connecting"]

\* initialize() past loadConfig, in a browser that has EventSource
SSEInitialize ==
    /\ ~sse.initialized
    /\ sse' = [InitializeSSE(sse) EXCEPT !.initialized = TRUE, !.last = "initialize"]
    /\ UNCHANGED <<pollVars, sock>>

\* the stream is established: onopen
SSEOpen ==
    /\ sse.eventSource = "connecting"
    /\ sse' = [sse EXCEPT !.eventSource = "open", !.connectionStatus = "connected",
                          !.last = "open"]
    /\ UNCHANGED <<pollVars, sock>>

\* onerror: the browser either retries by itself (readyState CONNECTING) or
\* gives up (readyState CLOSED); the handler sets the 3000 ms timeout
SSEError(timerCap) ==
    /\ Live(sse.eventSource)
    /\ sse.timers.reconnect < timerCap
    /\ \E readyState \in {"connecting", "closed"} :
          sse' = [sse EXCEPT !.eventSource = readyState,
                             !.connectionStatus = "disconnected",
                             !.timers.reconnect = @ + 1,
                             !.last = "error"]
    /\ UNCHANGED <<pollVars, sock>>

\* the 3000 ms timeout of onerror
SSEReconnectTimerFires ==
    /\ sse.timers.reconnect > 0
    /\ sse' = IF sse.eventSource = "closed"
              THEN [InitializeSSE(sse) EXCEPT !.timers.reconnect = @ - 1,
                                              !.last = "reconnect"]
              ELSE [sse EXCEPT !.timers.reconnect = @ - 1, !.last = "timer"]
    /\ UNCHANGED <<pollVars, sock>>

\* visibilitychange, document.hidden being documentHidden
SSEVisibilityChange ==
    /\ \E documentHidden \in BOOLEAN :
          sse' = IF ~documentHidden /\ sse.eventSource = "closed"
                 THEN [InitializeSSE(sse) EXCEPT !.last = "visible"]
                 ELSE [sse EXCEPT !.last = "visibility"]
    /\ UNCHANGED <<pollVars, sock>>

\* pageshow with event.persisted
SSEPageShow ==
    /\ sse' = [InitializeSSE(sse) EXCEPT !.last = "pageshow"]
    /\ UNCHANGED <<pollVars, sock>>

\* renderCards of this dashboard: #content is replaced as a whole; an empty
\* or missing snapshot returns before the 2000 ms timeout is set
SSERenderCards(s, detections, isUpdate) ==
    IF OrEmpty(detections) = <<>>
    THEN [s EXCEPT !.content = <<>>, !.highlight = FALSE]
    ELSE [s EXCEPT !.content = detections.items,
                   !.highlight = isUpdate,
                   !.timers.highlight = @ + (IF isUpdate THEN 1 ELSE 0)]

\* showUpdateIndicator when hasChanges
SSEShowUpdateIndicator(s, hasChanges) ==
    IF hasChanges
    THEN [s EXCEPT !.updateIndicator = TRUE, !.timers.indicator = @ + 1]
    ELSE s

\* onmessage taking a heartbeat for a detection_update
SSEMessageHeartbeatRenders(payloads, timerCap) ==
    /\ sse.eventSource = "open"
    /\ \E type \in {"unparseable", "connected", "detection_update", "heartbeat", "unknown"} :
          IF type \notin {"detection_update", "heartbeat"}
          THEN sse' = [sse EXCEPT !.last = type]
          ELSE \E detections \in payloads :
               \E hasChanges \in {DetectChanges(detections, sse.previousDetections)} :
                  /\ hasChanges => /\ sse.timers.indicator < timerCap
                                   /\ sse.timers.highlight < timerCap
                  /\ sse' = [SSERenderCards(SSEShowUpdateIndicator(sse, hasChanges),
                                            detections, hasChanges)
                                EXCEPT !.previousDetections = detections,
                                       !.last = type]
    /\ UNCHANGED <<pollVars, sock>>

\* onmessage. A message that is not JSON, or of type connected, heartbeat or
\* unknown, changes nothing.
SSEMessage(payloads, timerCap) ==
    /\ sse.eventSource = "open"
    /\ \E type \in {"unparseable", "connected", "detection_update", "heartbeat", "unknown"} :
          IF type # "detection_update"
          THEN sse' = [sse EXCEPT !.last = type]
          ELSE \E detections \in payloads :
               \E hasChanges \in {DetectChanges(detections, sse.previousDetections)} :
                  /\ hasChanges => /\ sse.timers.indicator < timerCap
                                   /\ sse.timers.highlight < timerCap
                  /\ sse' = [SSERenderCards(SSEShowUpdateIndicator(sse, hasChanges),
                                            detections, hasChanges)
                                EXCEPT !.previousDetections = detections,
                                       !.last = type]
    /\ UNCHANGED <<pollVars, sock>>

\* showUpdateIndicator's 1000 ms timeout
SSEIndicatorTimerFires ==
    /\ sse.timers.indicator > 0
    /\ sse' = [sse EXCEPT !.timers.indicator = @ - 1, !.updateIndicator = FALSE,
                          !.last = "indicator"]
    /\ UNCHANGED <<pollVars, sock>>

\* renderCards' 2000 ms timeout
SSEHighlightTimerFires ==
    /\ sse.timers.highlight > 0
    /\ sse' = [sse EXCEPT !.timers.highlight = @ - 1, !.highlight = FALSE,
                          !.last = "highlight"]
    /\ UNCHANGED <<pollVars, sock>>

\* ------------------------------------------------------------------------
\* pollForUpdates statement by statement: the function suspends at its two
\* awaits (the fetch, line 480, and response.json(), line 498); what follows
\* the second await runs without suspending
\* ------------------------------------------------------------------------
\* lines 499-514 suspending between their statements
CallStackNeverBusy ==
    loop.task.pc \in {"idle", "render", "navigation", "previous"}

\* the event loop dispatches a callback or resumes a continuation only when
\* no synchronous code is running: lines 499-514 hold no await
CallStackEmpty ==
    loop.task.pc = "idle"

\* s without its i-th element
RemoveAt(s, i) == SubSeq(s, 1, i - 1) \o SubSeq(s, i + 1, Len(s))

\* the fetch resolves with a 200 response (lines 485-498): the ETag is
\* stored and the body starts being read
FetchResolves(payloads, etags) ==
    /\ UNCHANGED <<sse, sock>>
    /\ CallStackEmpty
    /\ initialized
    /\ inFlight > 0
    /\ Len(loop.parsing) < MaxInFlight
    /\ inFlight' = inFlight - 1
    /\ \E detections \in payloads, etag \in etags :
          /\ lastETag' = etag
          /\ loop' = [loop EXCEPT !.parsing = Append(@, [detections |-> detections,
                                                          etag |-> etag])]
          /\ lastPass' = [op |-> "headers", etag |-> etag]
    /\ UNCHANGED <<tableIdMapping, nextTableId, previousDetections, storage,
                   storageWritable, grid, updateIndicator, timers, connectionStatus,
                   initialized, pollingActive, pollingInterval, hidden>>

\* response.json() of one of the responses resolves and pollForUpdates
\* resumes (lines 498-507): detectChanges and showUpdateIndicator
PassDetect(cap, timerCap) ==
    /\ UNCHANGED <<sse, sock>>
    /\ CallStackEmpty
    /\ \E i \in DOMAIN loop.parsing :
       \E hasChanges \in {DetectChanges(loop.parsing[i].detections,
                                         previousDetections)} :
          /\ nextTableId + Len(OrEmpty(loop.parsing[i].detections)) <= cap
          /\ hasChanges => /\ timers.indicator < timerCap
                           /\ timers.highlight < timerCap
          /\ updateIndicator' = (updateIndicator \/ hasChanges)
          /\ timers' = [timers EXCEPT !.indicator = @ + (IF hasChanges THEN 1 ELSE 0)]
          /\ loop' = [loop EXCEPT
                        !.parsing = RemoveAt(loop.parsing, i),
                        !.task = [pc |-> "render",
                                  detections |-> loop.parsing[i].detections,
                                  etag |-> loop.parsing[i].etag,
                                  hasChanges |-> hasChanges]]
    /\ lastPass' = [op |-> "detect"]
    /\ UNCHANGED <<tableIdMapping, nextTableId, previousDetections, storage,
                   storageWritable, grid, connectionStatus, initialized,
                   pollingActive, pollingInterval, inFlight, lastETag, hidden>>

\* response.json() of one of the responses rejects (the body is not JSON):
\* the catch at 516
JsonRejects ==
    /\ UNCHANGED <<sse, sock>>
    /\ CallStackEmpty
    /\ \E i \in DOMAIN loop.parsing :
          loop' = [loop EXCEPT !.parsing = RemoveAt(loop.parsing, i)]
    /\ connectionStatus' = "disconnected"
    /\ lastPass' = [op |-> "failed"]
    /\ UNCHANGED <<tableIdMapping, nextTableId, previousDetections, storage,
                   storageWritable, grid, updateIndicator, timers, initialized,
                   pollingActive, pollingInterval, inFlight, lastETag, hidden>>

\* line 510: renderCards(data.detections, hasChanges); what it throws is
\* caught at 516
PassRender ==
    /\ UNCHANGED <<sse, sock>>
    /\ loop.task.pc = "render"
    /\ \E order \in ComparatorOrders(OrEmpty(loop.task.detections),
                        CleanupStaleTableMappings(
                            AllocState(tableIdMapping, nextTableId, storage,
                                       storageWritable),
                            OrEmpty(loop.task.detections)).mapping) :
       \E r \in {RenderCards(grid,
                    AllocState(tableIdMapping, nextTableId, storage, storageWritable),
                    loop.task.detections, loop.task.hasChanges, order)} :
          /\ tableIdMapping' = r.alloc.mapping
          /\ nextTableId' = r.alloc.nextId
          /\ storage' = r.alloc.storage
          /\ grid' = r.grid
          /\ timers' = [timers EXCEPT !.highlight = @ + (IF r.scheduled THEN 1 ELSE 0)]
          /\ loop' = [loop EXCEPT !.task = IF r.alloc.threw THEN Idle
                                           ELSE [@ EXCEPT !.pc = "navigation"],
                                  !.shown = IF r.alloc.threw THEN @
                                            ELSE loop.task.etag]
          /\ connectionStatus' = IF r.alloc.threw THEN "disconnected"
                                 ELSE connectionStatus
    /\ lastPass' = [op |-> "render"]
    /\ UNCHANGED <<previousDetections, storageWritable, updateIndicator, initialized,
                   pollingActive, pollingInterval, inFlight, lastETag, hidden>>

\* line 511: updateClientsNavigation(data.detections); what it throws is
\* caught at 516
PassNavigation ==
    /\ UNCHANGED <<sse, sock>>
    /\ loop.task.pc = "navigation"
    /\ IF UpdateClientsNavigationThrows(loop.task.detections)
       THEN /\ loop' = [loop EXCEPT !.task = Idle]
            /\ connectionStatus' = "disconnected"
       ELSE /\ loop' = [loop EXCEPT !.task.pc = "previous"]
            /\ UNCHANGED connectionStatus
    /\ lastPass' = [op |-> "navigation"]
    /\ UNCHANGED <<tableIdMapping, nextTableId, previousDetections, storage,
                   storageWritable, grid, updateIndicator, timers, initialized,
                   pollingActive, pollingInterval, inFlight, lastETag, hidden>>

\* lines 512-514: previousDetections = data.detections and the status
PassPrevious ==
    /\ UNCHANGED <<sse, sock>>
    /\ loop.task.pc = "previous"
    /\ previousDetections' = loop.task.detections
    /\ connectionStatus' = "connected"
    /\ loop' = [loop EXCEPT !.task = Idle]
    /\ lastPass' = [op |-> "previous"]
    /\ UNCHANGED <<tableIdMapping, nextTableId, storage, storageWritable, grid,
                   updateIndicator, timers, initialized, pollingActive,
                   pollingInterval, inFlight, lastETag, hidden>>

\* the callbacks of the page, dispatched by the event loop
LoopInitialize == CallStackEmpty /\ Initialize

LoopIntervalFires == CallStackEmpty /\ IntervalFires

LoopIndicatorTimerFires == CallStackEmpty /\ IndicatorTimerFires

LoopHighlightTimerFires == CallStackEmpty /\ HighlightTimerFires

\* initialize() up to its first await (lines 594-598): loadTableIdMapping,
\* then the function is suspended while the configuration is fetched
InitializeLoads ==
    /\ UNCHANGED <<sse, sock>>
    /\ ~initialized
    /\ ~loop.initializing
    /\ \E m \in {LoadTableIdMapping(
                    AllocState(tableIdMapping, nextTableId, storage, storageWritable))} :
           /\ tableIdMapping' = m.mapping
           /\ nextTableId' = m.nextId
    /\ loop' = [loop EXCEPT !.initializing = TRUE]
    /\ lastPass' = [op |-> "load", before |-> lastPass]
    /\ UNCHANGED <<previousDetections, storage, storageWritable, grid,
                   updateIndicator, timers, connectionStatus, initialized,
                   pollingActive, pollingInterval, inFlight, lastETag, hidden>>

\* initialize() past its awaits (lines 601-602): startPolling
InitializeStarts ==
    /\ UNCHANGED <<sse, sock>>
    /\ loop.initializing
    /\ pollingActive \/ inFlight < MaxInFlight
    /\ initialized' = TRUE
    /\ loop' = [loop EXCEPT !.initializing = FALSE]
    /\ StartPolling
    /\ lastPass' = [op |-> "start", wasActive |-> pollingActive]
    /\ UNCHANGED <<tableIdMapping, nextTableId, previousDetections, storage,
                   storageWritable, grid, updateIndicator, timers, lastETag, hidden>>

\* ------------------------------------------------------------------------
\* The push-socket client view (src/web/templates/static/client-app.js)
\* ------------------------------------------------------------------------
\* renderCards of this view: #content is replaced as a whole; an empty or
\* missing snapshot returns before the 2000 ms timeout is set
SockRenderCards(s, detections, isUpdate) ==
    IF OrEmpty(detections) = <<>>
    THEN [s EXCEPT !.content = <<>>, !.highlight = FALSE]
    ELSE [s EXCEPT !.content = detections.items,
                   !.highlight = isUpdate,
                   !.timers.highlight = @ + (IF isUpdate THEN 1 ELSE 0)]

\* showUpdateIndicator when hasChanges
SockShowUpdateIndicator(s, hasChanges) ==
    IF hasChanges
    THEN [s EXCEPT !.updateIndicator = TRUE, !.timers.indicator = @ + 1]
    ELSE s

\* updateStatus(data.last_update, data.detections.length) on a missing
\* `detections`
UpdateStatusThrows(detections) == ~detections.defined

\* loadInitialData with the response's detections; ok is false when the fetch
\* fails or the response is not ok; what it throws is caught at 384
LoadInitialData(s, ok, data) ==
    IF ~ok \/ UpdateStatusThrows(data) THEN s
    ELSE [SockRenderCards(s, data, FALSE) EXCEPT !.previousDetections = data]

\* initializeSocketIO: io() creates the socket, which starts connecting
InitializeSocketIO(s) ==
    [s EXCEPT !.connectionStatus = "connecting", !.socket = "connecting"]

\* initialize(): loadConfig, loadInitialData, initializeSocketIO
SockInitialize(payloads) ==
    /\ ~sock.initialized
    /\ \E ok \in BOOLEAN, data \in payloads :
          sock' = [InitializeSocketIO(LoadInitialData(sock, ok, data))
                      EXCEPT !.initialized = TRUE, !.last = "initialize"]
    /\ UNCHANGED <<pollVars, sse>>

\* on connect
SockConnect ==
    /\ sock.socket = "connecting"
    /\ sock' = [sock EXCEPT !.socket = "connected", !.connectionStatus = "connected",
                            !.last = "connect"]
    /\ UNCHANGED <<pollVars, sse>>

\* on connect_error
SockConnectError ==
    /\ sock.socket = "connecting"
    /\ sock' = [sock EXCEPT !.socket = "disconnected",
                            !.connectionStatus = "disconnected",
                            !.last = "connect_error"]
    /\ UNCHANGED <<pollVars, sse>>

\* `if (socket && !socket.connected) socket.connect()`
SocketConnect(socket) ==
    IF socket \in {"null", "connected"} THEN socket ELSE "connecting"

\* on disconnect: the status, and the 3000 ms timeout is set
SockDisconnect(timerCap) ==
    /\ sock.socket = "connected"
    /\ sock.timers.reconnect < timerCap
    /\ sock' = [sock EXCEPT !.socket = "disconnected",
                            !.connectionStatus = "disconnected",
                            !.timers.reconnect = @ + 1,
                            !.last = "disconnect"]
    /\ UNCHANGED <<pollVars, sse>>

\* the 3000 ms timeout of on disconnect
SockReconnectTimerFires ==
    /\ sock.timers.reconnect > 0
    /\ sock' = [sock EXCEPT !.timers.reconnect = @ - 1,
                            !.socket = SocketConnect(@),
                            !.last = IF sock.socket = "connected"
                                     THEN "timer" ELSE "reconnect"]
    /\ UNCHANGED <<pollVars, sse>>

\* visibilitychange, document.hidden being documentHidden
SockVisibilityChange ==
    /\ \E documentHidden \in BOOLEAN :
          sock' = IF documentHidden THEN [sock EXCEPT !.last = "visibility"]
                  ELSE [sock EXCEPT !.socket = SocketConnect(@), !.last = "visible"]
    /\ UNCHANGED <<pollVars, sse>>

\* pageshow with event.persisted
SockPageShow ==
    /\ sock' = [sock EXCEPT !.socket = SocketConnect(@), !.last = "pageshow"]
    /\ UNCHANGED <<pollVars, sse>>

\* on client_detection_update processing the events of every client
ClientDetectionUpdateAnyClient(clientIds, payloads, timerCap) ==
    /\ sock.socket = "connected"
    /\ \E client_id \in clientIds, detections \in payloads :
       \E hasChanges \in {DetectChanges(detections, sock.previousDetections)} :
          /\ hasChanges => /\ sock.timers.indicator < timerCap
                           /\ sock.timers.highlight < timerCap
          /\ sock' =
               IF UpdateStatusThrows(detections)
               THEN [SockShowUpdateIndicator(sock, hasChanges) EXCEPT !.last = "threw"]
               ELSE [SockRenderCards(SockShowUpdateIndicator(sock, hasChanges),
                                     detections, hasChanges)
                        EXCEPT !.previousDetections = detections,
                               !.last = IF client_id = sock.clientId
                                        THEN "update" ELSE "foreign"]
    /\ UNCHANGED <<pollVars, sse>>

\* on client_detection_update (lines 327-343); data.detections.length throws
\* on a missing `detections`, after the indicator
ClientDetectionUpdate(clientIds, payloads, timerCap) ==
    /\ sock.socket = "connected"
    /\ \E client_id \in clientIds, detections \in payloads :
       \E hasChanges \in {DetectChanges(detections, sock.previousDetections)} :
          /\ (client_id = sock.clientId /\ hasChanges) =>
                /\ sock.timers.indicator < timerCap
                /\ sock.timers.highlight < timerCap
          /\ sock' =
               IF client_id # sock.clientId
               THEN [sock EXCEPT !.last = "foreign"]
               ELSE IF UpdateStatusThrows(detections)
               THEN [SockShowUpdateIndicator(sock, hasChanges) EXCEPT !.last = "threw"]
               ELSE [SockRenderCards(SockShowUpdateIndicator(sock, hasChanges),
                                     detections, hasChanges)
                        EXCEPT !.previousDetections = detections, !.last = "update"]
    /\ UNCHANGED <<pollVars, sse>>

\* on subscription_error: #content shows the error
SockSubscriptionError ==
    /\ sock.socket = "connected"
    /\ sock' = [sock EXCEPT !.connectionStatus = "disconnected", !.content = <<>>,
                            !.highlight = FALSE, !.last = "subscription_error"]
    /\ UNCHANGED <<pollVars, sse>>

\* showUpdateIndicator's 1000 ms timeout
SockIndicatorTimerFires ==
    /\ sock.timers.indicator > 0
    /\ sock' = [sock EXCEPT !.timers.indicator = @ - 1, !.updateIndicator = FALSE,
                            !.last = "indicator"]
    /\ UNCHANGED <<pollVars, sse>>

\* renderCards' 2000 ms timeout
SockHighlightTimerFires ==
    /\ sock.timers.highlight > 0
    /\ sock' = [sock EXCEPT !.timers.highlight = @ - 1, !.highlight = FALSE,
                            !.last = "highlight"]
    /\ UNCHANGED <<pollVars, sse>>

\* ------------------------------------------------------------------------
\* Spec: a fresh browser, a store that can be written, two tables of which
\* one changes its hand
\* ------------------------------------------------------------------------
Init == InitWith({NoRecord}, {TRUE})

Next ==
    \/ Initialize
    \/ Poll(Payloads, "any", MaxNextTableId, MaxPendingTimers)
    \/ IndicatorTimerFires
    \/ HighlightTimerFires
    \/ Reload({TRUE})

Spec == Init /\ [][Next]_vars

\* ------------------------------------------------------------------------
\* SpecChurn: as Spec, the counter running past the grid's capacity
\* ------------------------------------------------------------------------
NextChurn ==
    \/ Initialize
    \/ Poll(Payloads, "any", MaxChurnTableId, MaxPendingTimers)
    \/ IndicatorTimerFires
    \/ HighlightTimerFires
    \/ Reload({TRUE})

SpecChurn == Init /\ [][NextChurn]_vars

\* ------------------------------------------------------------------------
\* SpecDiff: as Spec, a table changing its hand between snapshots
\* ------------------------------------------------------------------------
NextDiff ==
    \/ Initialize
    \/ Poll(ChangingPayloads, "any", MaxSmallTableId, MaxPendingTimers)
    \/ IndicatorTimerFires
    \/ HighlightTimerFires
    \/ Reload({TRUE})

SpecDiff == Init /\ [][NextDiff]_vars

\* a timeout that was set fires
SpecDiffLive ==
    /\ SpecDiff
    /\ WF_vars(HighlightTimerFires)
    /\ WF_vars(IndicatorTimerFires)

\* ------------------------------------------------------------------------
\* SpecStore: the store may refuse writes (quota exceeded, storage disabled);
\* whether it does is settled when the page is loaded
\* ------------------------------------------------------------------------
InitStore == InitWith({NoRecord}, BOOLEAN)

NextStore ==
    \/ Initialize
    \/ Poll(Payloads, "any", MaxSmallTableId, MaxPendingTimers)
    \/ IndicatorTimerFires
    \/ HighlightTimerFires
    \/ Reload(BOOLEAN)

SpecStore == InitStore /\ [][NextStore]_vars

\* ------------------------------------------------------------------------
\* SpecCorrupt: the browser holds any record, also none this program wrote
\* ------------------------------------------------------------------------
JsonRecord(top, mappingType, mapping, str, nextId) ==
    [kind |-> "json", top |-> top, mappingType |-> mappingType,
     mapping |-> mapping, str |-> str, nextId |-> nextId]

StoredRecords ==
    {NoRecord,
     [kind |-> "empty"],                                   \* ''
     [kind |-> "invalid"],                                 \* 'not json'
     JsonRecord("null", "undefined", <<>>, <<>>, 0),       \* 'null'
     JsonRecord("number", "undefined", <<>>, <<>>, 0),     \* '5'
     JsonRecord("object", "undefined", <<>>, <<>>, 3),     \* '{"nextId":3}'
     JsonRecord("object", "null", <<>>, <<>>, 3),          \* '{"mapping":null,"nextId":3}'
     JsonRecord("object", "number", <<>>, <<>>, 3),        \* '{"mapping":5,"nextId":3}'
     JsonRecord("object", "string", <<>>, <<"a", "b">>, 3),\* '{"mapping":"ab","nextId":3}'
     JsonRecord("object", "object", <<>>, <<>>, 0),        \* '{"mapping":{}}'
     StringifyRecord(<<>>, 2)}                             \* '{"mapping":{},"nextId":2}'

InitCorrupt == InitWith(StoredRecords, {TRUE})

SpecCorrupt == InitCorrupt /\ [][Next]_vars

\* ------------------------------------------------------------------------
\* SpecWide: seven tables at once, the comparator handed the elements in
\* index order or the second before the first
\* ------------------------------------------------------------------------
NextWide ==
    \/ Initialize
    \/ Poll(WidePayloads, "index", MaxChurnTableId, MaxPendingTimers)
    \/ IndicatorTimerFires
    \/ HighlightTimerFires
    \/ Reload({TRUE})

SpecWide == Init /\ [][NextWide]_vars

\* ------------------------------------------------------------------------
\* SpecNet: one table; requests and their answers are separate steps, the
\* server answers 200, 304 or fails, the page is hidden and shown
\* ------------------------------------------------------------------------
NetPayloads == PayloadsOf({TableA})

ETags == {NoETag, "v1"}

NextNet ==
    \/ Initialize
    \/ IntervalFires
    \/ Respond200(NetPayloads, ETags, MaxSmallTableId, MaxPendingTimers)
    \/ Respond304
    \/ RespondError
    \/ PageHidden
    \/ PageVisible
    \/ PageShow
    \/ IndicatorTimerFires
    \/ HighlightTimerFires
    \/ Reload({TRUE})

SpecNet == Init /\ [][NextNet]_vars

\* the interval fires every 5000 ms while it lives
SpecNetLive == SpecNet /\ WF_vars(IntervalFires)

\* ------------------------------------------------------------------------
\* SpecSSE: the server-sent-events dashboard, one table in the stream
\* ------------------------------------------------------------------------
NextSSE ==
    \/ SSEInitialize
    \/ SSEOpen
    \/ SSEError(MaxPendingTimers)
    \/ SSEReconnectTimerFires
    \/ SSEVisibilityChange
    \/ SSEPageShow
    \/ SSEMessage(NetPayloads, MaxPendingTimers)
    \/ SSEIndicatorTimerFires
    \/ SSEHighlightTimerFires

SpecSSE == Init /\ [][NextSSE]_vars

\* a timeout that was set fires
SpecSSELive == SpecSSE /\ WF_vars(SSEReconnectTimerFires)

\* ------------------------------------------------------------------------
\* SpecTimers: one table that changes its hand, responses arriving closer
\* together than the 2000 ms of the highlight's timeout
\* ------------------------------------------------------------------------
TimerPayloads == {Arr(<<TableA>>), Arr(<<TableANewHand>>), Arr(<<>>)}

NextTimers ==
    \/ Initialize
    \/ Poll(TimerPayloads, "index", MaxSmallTableId, MaxPendingTimers + 1)
    \/ IndicatorTimerFires
    \/ HighlightTimerFires
    \/ Reload({TRUE})

SpecTimers == Init /\ [][NextTimers]_vars

\* ------------------------------------------------------------------------
\* SpecLoop: the polling dashboard with pollForUpdates statement by
\* statement, several requests under way
\* ------------------------------------------------------------------------
LoopPayloads == {Undefined, Arr(<<>>), Arr(<<TableA>>)}

NextLoop ==
    \/ LoopInitialize
    \/ LoopIntervalFires
    \/ FetchResolves(LoopPayloads, {"v1"})
    \/ PassDetect(MaxSmallTableId, MaxPendingTimers)
    \/ PassRender
    \/ PassNavigation
    \/ PassPrevious
    \/ LoopIndicatorTimerFires
    \/ LoopHighlightTimerFires

SpecLoop == Init /\ [][NextLoop]_vars

\* ------------------------------------------------------------------------
\* SpecSocket: the push-socket client view of client A; the server also
\* emits the events of client B
\* ------------------------------------------------------------------------
ClientIds == {<<"A">>, <<"B">>}

NextSocket ==
    \/ SockInitialize(NetPayloads)
    \/ SockConnect
    \/ SockConnectError
    \/ SockDisconnect(MaxPendingTimers)
    \/ SockReconnectTimerFires
    \/ SockVisibilityChange
    \/ SockPageShow
    \/ ClientDetectionUpdate(ClientIds, NetPayloads, MaxPendingTimers)
    \/ SockSubscriptionError
    \/ SockIndicatorTimerFires
    \/ SockHighlightTimerFires

SpecSocket == Init /\ [][NextSocket]_vars

\* ------------------------------------------------------------------------
\* SpecPages: a tab that shows one of the three pages, each fed the
\* snapshots of one table
\* ------------------------------------------------------------------------
\* the document runs the script of the polling dashboard
PollingTab == ~sse.initialized /\ ~sock.initialized

\* the document runs the script of the server-sent-events dashboard
SSETab == ~initialized /\ ~sock.initialized

\* the document runs the script of the push-socket client view
SocketTab == ~initialized /\ ~sse.initialized

NextPages ==
    \/ PollingTab /\ Initialize
    \/ PollingTab /\ Poll(NetPayloads, "index", MaxSmallTableId, MaxPendingTimers)
    \/ PollingTab /\ IndicatorTimerFires
    \/ PollingTab /\ HighlightTimerFires
    \/ SSETab /\ SSEInitialize
    \/ SSETab /\ SSEOpen
    \/ SSETab /\ SSEError(MaxPendingTimers)
    \/ SSETab /\ SSEReconnectTimerFires
    \/ SSETab /\ SSEMessage(NetPayloads, MaxPendingTimers)
    \/ SSETab /\ SSEIndicatorTimerFires
    \/ SSETab /\ SSEHighlightTimerFires
    \/ SocketTab /\ SockInitialize(NetPayloads)
    \/ SocketTab /\ SockConnect
    \/ SocketTab /\ SockDisconnect(MaxPendingTimers)
    \/ SocketTab /\ SockReconnectTimerFires
    \/ SocketTab /\ ClientDetectionUpdate(ClientIds, NetPayloads, MaxPendingTimers)
    \/ SocketTab /\ SockIndicatorTimerFires
    \/ SocketTab /\ SockHighlightTimerFires

SpecPages == Init /\ [][NextPages]_vars

\* ------------------------------------------------------------------------
\* SpecStart: initialize() suspended at its awaits while the page is hidden,
\* shown and restored; the server answers 304 or fails
\* ------------------------------------------------------------------------
NextStart ==
    \/ InitializeLoads
    \/ InitializeStarts
    \/ PageHidden
    \/ PageVisible
    \/ PageShow
    \/ IntervalFires
    \/ Respond200(LoopPayloads, {NoETag}, MaxSmallTableId, MaxPendingTimers)
    \/ Respond304
    \/ RespondError
    \/ IndicatorTimerFires
    \/ HighlightTimerFires
    \/ Reload({TRUE})

SpecStart == Init /\ [][NextStart]_vars

\* ------------------------------------------------------------------------
\* SpecToken: as SpecLoop, every response carrying one of two ETags, and a
\* body may fail to parse
\* ------------------------------------------------------------------------
TokenETags == {"v1", "v2"}

TokenPayloads == {Arr(<<>>), Arr(<<TableA>>)}

NextToken ==
    \/ LoopInitialize
    \/ LoopIntervalFires
    \/ FetchResolves(TokenPayloads, TokenETags)
    \/ JsonRejects
    \/ PassDetect(MaxSmallTableId, MaxPendingTimers)
    \/ PassRender
    \/ PassNavigation
    \/ PassPrevious
    \/ LoopIndicatorTimerFires
    \/ LoopHighlightTimerFires

SpecToken == Init /\ [][NextToken]_vars

\* ------------------------------------------------------------------------
\* SpecUnderscore: as Spec, two tables whose identifiers hold the separator
\* ------------------------------------------------------------------------
UnderscorePayloads == PayloadsOf({TableUnderscoreClient, TableUnderscoreWindow})

NextUnderscore ==
    \/ Initialize
    \/ Poll(UnderscorePayloads, "any", MaxSmallTableId, MaxPendingTimers)
    \/ IndicatorTimerFires
    \/ HighlightTimerFires
    \/ Reload({TRUE})

SpecUnderscore == Init /\ [][NextUnderscore]_vars

\* ------------------------------------------------------------------------
\* Properties
\* ------------------------------------------------------------------------
KeyA == Key(TableA)

KeyB == Key(TableB)

\* the step is, or follows, a completed pass over a snapshot holding key k
PassOver(k) ==
    /\ lastPass'.op = "poll"
    /\ lastPass'.rendered
    /\ k \in KeysOf(OrEmpty(lastPass'.detections))

\* C1 -- Identity stability: a key that has a SlotId and is present in the
\* snapshot of a pass has the same SlotId after the pass, and the pass paints
\* the key's detection under that SlotId, whatever other keys the snapshot
\* adds or drops and in whatever order it lists them.
IdentityStability ==
    [][\A k \in DOMAIN tableIdMapping :
          PassOver(k) =>
            /\ k \in DOMAIN tableIdMapping'
            /\ tableIdMapping'[k] = tableIdMapping[k]
            /\ tableIdMapping[k] \in DOMAIN lastPass'.detectionMap
            /\ Key(lastPass'.detectionMap[tableIdMapping[k]]) = k]_vars

\* table A kept 01 while table B left and came back
IdentityStabilityWitness ==
    /\ lastPass.op = "poll"
    /\ previousDetections = Arr(<<TableB, TableA>>)
    /\ KeyA \in DOMAIN tableIdMapping
    /\ KeyB \in DOMAIN tableIdMapping
    /\ tableIdMapping[KeyA] = <<"0", "1">>
    /\ tableIdMapping[KeyB] = <<"0", "3">>

\* C2 -- SlotId uniqueness: no two distinct keys of tableIdMapping hold the
\* same SlotId, and the counter is beyond every SlotId held.
SlotIdUnique ==
    /\ \A k1, k2 \in DOMAIN tableIdMapping :
          k1 # k2 => tableIdMapping[k1] # tableIdMapping[k2]
    /\ \A k \in DOMAIN tableIdMapping :
          \E n \in 1..(nextTableId - 1) : tableIdMapping[k] = FormatId(n)

\* two keys hold ids in a page that was loaded from a record the program wrote
SlotIdUniqueWitness ==
    /\ lastPass.op = "poll"
    /\ storage # NoRecord
    /\ storage # StringifyRecord(tableIdMapping, nextTableId)
    /\ Cardinality(DOMAIN tableIdMapping) = 2
    /\ nextTableId = 3

\* the labels of the grid's slots, written out
GridLabels ==
    {<<"0", "1">>, <<"0", "2">>, <<"0", "3">>, <<"0", "4">>, <<"0", "5">>, <<"0", "6">>}

\* some slot of the grid shows a detection of key k
Painted(k) ==
    \E l \in DOMAIN grid :
        /\ grid[l].className = "active"
        /\ Len(grid[l].detection) = 1
        /\ Key(grid[l].detection[1]) = k

\* C3 -- Every SlotId handed out is one of the grid labels 01..06, and after
\* a pass over a snapshot of at most MAX_TABLES distinct keys every key of the
\* snapshot is painted in some slot.
SlotIdInGrid ==
    /\ \A k \in DOMAIN tableIdMapping : tableIdMapping[k] \in GridLabels
    /\ (/\ lastPass.op = "poll"
        /\ lastPass.rendered
        /\ Cardinality(KeysOf(OrEmpty(lastPass.detections))) <= MAX_TABLES)
       => \A k \in KeysOf(OrEmpty(lastPass.detections)) : Painted(k)

\* C4 -- Bounded cardinality: right after cleanupStaleTableMappings the Map
\* holds at most MAX_TABLES entries, whatever the size of the snapshot.
BoundedCardinality ==
    lastPass.op = "poll" => Cardinality(DOMAIN lastPass.afterCleanup) <= MAX_TABLES

\* C5 -- Eviction: a completed pass leaves no key in the Map that its
\* snapshot does not hold, and a key of the snapshot that had no SlotId (never
\* seen, or evicted by an earlier pass) is given one from the counter's
\* current value onwards, not its former one.
Eviction ==
    [][(lastPass'.op = "poll" /\ lastPass'.rendered) =>
          /\ \A k \in (DOMAIN tableIdMapping) \ KeysOf(OrEmpty(lastPass'.detections)) :
                k \notin DOMAIN tableIdMapping'
          /\ \A k \in KeysOf(OrEmpty(lastPass'.detections)) \ (DOMAIN tableIdMapping) :
                /\ k \in DOMAIN tableIdMapping'
                /\ \E n \in nextTableId..(nextTableId' - 1) :
                      tableIdMapping'[k] = FormatId(n)]_vars

\* the pass just completed evicted table A and kept table B
EvictionWitness ==
    /\ lastPass.op = "poll"
    /\ lastPass.rendered
    /\ lastPass.evicted = {KeyA}
    /\ DOMAIN tableIdMapping = {KeyB}

\* C6 -- Reload round trip: initialize() in a reloaded page restores the Map
\* and the counter the page held before the reload, and the first pass after
\* it keeps, for every key that was mapped and is in its snapshot, the SlotId
\* the key had and paints the key in the slot of that label.
ReloadRoundTrip ==
    [][/\ (lastPass.op = "reload" /\ lastPass'.op = "load") =>
            /\ tableIdMapping' = lastPass.mapping
            /\ nextTableId' = lastPass.nextId
       /\ (/\ lastPass.op = "load"
           /\ lastPass.before.op = "reload"
           /\ lastPass'.op = "poll"
           /\ lastPass'.rendered) =>
            \A k \in (DOMAIN lastPass.before.mapping)
                        \cap KeysOf(OrEmpty(lastPass'.detections)) :
                /\ tableIdMapping'[k] = lastPass.before.mapping[k]
                /\ tableIdMapping'[k] \in DOMAIN grid' =>
                      /\ grid'[tableIdMapping'[k]].className = "active"
                      /\ Key(grid'[tableIdMapping'[k]].detection[1]) = k]_vars

\* a reloaded page has restored table A under 02 and the counter 3
ReloadRoundTripWitness ==
    /\ lastPass.op = "load"
    /\ lastPass.before.op = "reload"
    /\ storage = StringifyRecord([k \in {KeyA} |-> <<"0", "2">>], 3)
    /\ tableIdMapping = [k \in {KeyA} |-> <<"0", "2">>]
    /\ nextTableId = 3

\* the record holds no mapping object that loadTableIdMapping could restore
Unusable(record) ==
    \/ record.kind \in {"null", "empty", "invalid"}
    \/ record.kind = "json" /\ (record.top # "object" \/ record.mappingType # "object")

\* C7 -- loadTableIdMapping leaves an empty Map and the counter 1 when the
\* record is missing, is not parseable, or holds no mapping object.
LoadResetsOnCorrupt ==
    (lastPass.op = "load" /\ Unusable(storage)) =>
        (tableIdMapping = <<>> /\ nextTableId = 1)

\* C8 -- A failing store write is swallowed: while setItem throws, a pass
\* still renders, leaves the record as it was, maps every key of its snapshot
\* (a mapped key keeps its SlotId, a new one gets the next ids of the counter)
\* and hands each key's detection to the paint loop under that SlotId.
FailingWriteSwallowed ==
    [][(lastPass'.op = "poll" /\ ~storageWritable) =>
          /\ lastPass'.rendered
          /\ lastPass'.threw = ~lastPass'.detections.defined
          /\ storage' = storage
          /\ \A k \in KeysOf(OrEmpty(lastPass'.detections)) :
                /\ k \in DOMAIN tableIdMapping'
                /\ k \in DOMAIN tableIdMapping =>
                      tableIdMapping'[k] = tableIdMapping[k]
                /\ k \notin DOMAIN tableIdMapping =>
                      \E n \in nextTableId..(nextTableId' - 1) :
                          tableIdMapping'[k] = FormatId(n)
                /\ tableIdMapping'[k] \in DOMAIN lastPass'.detectionMap
                /\ Key(lastPass'.detectionMap[tableIdMapping'[k]]) = k]_vars

\* nothing was ever persisted, yet two allocations and an eviction went through
FailingWriteSwallowedWitness ==
    /\ ~storageWritable
    /\ storage = NoRecord
    /\ lastPass.op = "poll"
    /\ lastPass.rendered
    /\ lastPass.evicted # {}
    /\ nextTableId = 3
    /\ DOMAIN tableIdMapping = {KeyB}

\* C9 -- detectChanges(next) is false exactly when next is the stored
\* previous snapshot: the same detections, in the same order, with the same
\* value in every field; the last pass reported what it computed.
DetectChangesExact ==
    /\ \A next \in ChangingPayloads :
          DetectChanges(next, previousDetections) = (next # previousDetections)
    /\ (lastPass.op = "poll" /\ ~lastPass.threw /\ ~lastPass.hasChanges) =>
          lastPass.detections = previousDetections

\* a snapshot of two tables was delivered twice in a row: no change
DetectChangesExactWitness ==
    /\ lastPass.op = "poll"
    /\ ~lastPass.hasChanges
    /\ previousDetections = Arr(<<TableANewHand, TableB>>)

\* C10 -- After rendering an empty snapshot the grid has exactly the slots
\* 01..06 and each of them is in the empty state.
EmptySnapshotPlaceholders ==
    (lastPass.op = "poll" /\ lastPass.rendered /\ OrEmpty(lastPass.detections) = <<>>) =>
        /\ DOMAIN grid = GridLabels
        /\ \A l \in DOMAIN grid :
              grid[l].className = "empty" /\ grid[l].detection = <<>>

\* an empty snapshot was rendered over a grid that showed two tables
EmptySnapshotPlaceholdersWitness ==
    /\ lastPass.op = "poll"
    /\ lastPass.detections = Arr(<<>>)
    /\ Cardinality(lastPass.evicted) = 2

DistinctKeys(s) == \A i, j \in 1..Len(s) : Key(s[i]) = Key(s[j]) => i = j

\* what each slot of a grid shows
Placement(g) == [l \in DOMAIN g |-> g[l].detection]

SeqPermutations(s) ==
    {[i \in 1..Len(s) |-> s[p[i]]] : p \in PermutationsOf(1..Len(s))}

\* C11 -- Order independence of placement: a pass over a snapshot of distinct
\* keys that all have a SlotId paints each detection in the slot labelled with
\* its key's SlotId (when the grid has a slot of that label), and rendering any
\* permutation of the snapshot instead gives every slot the same content.
OrderIndependence ==
    [][(/\ lastPass'.op = "poll"
        /\ lastPass'.rendered
        /\ DistinctKeys(OrEmpty(lastPass'.detections))
        /\ KeysOf(OrEmpty(lastPass'.detections)) \subseteq DOMAIN tableIdMapping) =>
          /\ \A i \in 1..Len(OrEmpty(lastPass'.detections)) :
                tableIdMapping[Key(lastPass'.detections.items[i])] \in DOMAIN grid' =>
                    grid'[tableIdMapping[Key(lastPass'.detections.items[i])]].detection
                        = <<lastPass'.detections.items[i]>>
          /\ \A q \in SeqPermutations(OrEmpty(lastPass'.detections)) :
                \A o \in ComparatorOrders(q, lastPass'.afterCleanup) :
                    Placement(RenderCards(grid,
                                AllocState(tableIdMapping, nextTableId, storage,
                                           storageWritable),
                                Arr(q), TRUE, o).grid) = Placement(grid')]_vars

\* tables A and B, mapped as 01 and 02, arrived as B, A and stayed where they were
OrderIndependenceWitness ==
    /\ lastPass.op = "poll"
    /\ lastPass.rendered
    /\ lastPass.detections = Arr(<<TableB, TableA>>)
    /\ lastPass.afterCleanup = (KeyA :> <<"0", "1">>) @@ (KeyB :> <<"0", "2">>)
    /\ grid[<<"0", "1">>].detection = <<TableA>>
    /\ grid[<<"0", "2">>].detection = <<TableB>>

\* the last detection of the snapshot that has key k
LastWithKey(s, k) ==
    s[CHOOSE i \in 1..Len(s) :
        Key(s[i]) = k /\ \A j \in (i + 1)..Len(s) : Key(s[j]) # k]

\* C12 -- Duplicate keys in one snapshot: the pass renders, every key of the
\* snapshot holds one SlotId (the Map has as many entries as the snapshot has
\* distinct keys), and the slot of that label shows the detection that comes
\* last in the snapshot among those of the key.
DuplicateKeysLastWins ==
    [][(lastPass'.op = "poll" /\ lastPass'.detections.defined) =>
          /\ lastPass'.rendered
          /\ Cardinality(DOMAIN tableIdMapping')
                = Cardinality(KeysOf(lastPass'.detections.items))
          /\ \A k \in KeysOf(lastPass'.detections.items) :
                /\ k \in DOMAIN tableIdMapping'
                /\ tableIdMapping'[k] \in DOMAIN grid' =>
                      grid'[tableIdMapping'[k]].detection
                          = <<LastWithKey(lastPass'.detections.items, k)>>]_vars

\* table A came twice in one snapshot, the new hand first: the slot shows the
\* hand that came last
DuplicateKeysLastWinsWitness ==
    /\ lastPass.op = "poll"
    /\ lastPass.detections = Arr(<<TableANewHand, TableA>>)
    /\ DOMAIN tableIdMapping = {KeyA}
    /\ grid[tableIdMapping[KeyA]].detection = <<TableA>>

\* C13 -- A 304 response runs no reconciliation pass: the Map, the counter,
\* the persisted record, previousDetections, lastETag, every grid slot, the
\* update indicator and the timers stay as they are; the connection status
\* becomes connected.
NotModifiedFrame ==
    [][(lastPass'.op = "notModified" /\ inFlight' = inFlight - 1) =>
          /\ UNCHANGED <<tableIdMapping, nextTableId, storage, previousDetections,
                         lastETag, grid, updateIndicator, timers>>
          /\ connectionStatus' = "connected"]_vars

\* a 304 arrived after a failure, in a page that shows table A and holds an ETag
NotModifiedFrameWitness ==
    /\ lastPass.op = "notModified"
    /\ connectionStatus = "connected"
    /\ lastETag = "v1"
    /\ KeyA \in DOMAIN tableIdMapping
    /\ grid[tableIdMapping[KeyA]].detection = <<TableA>>

\* C16 -- Polling retry: a failed poll is caught (the status becomes
\* disconnected, polling stays as it was, nothing else changes), and unless
\* polling is stopped another request is issued; a 200 response after it is
\* reconciled as ever (the status becomes connected again).
PollingRetry ==
    /\ [][(lastPass'.op = "failed" /\ inFlight' = inFlight - 1) =>
            /\ connectionStatus' = "disconnected"
            /\ UNCHANGED <<pollingActive, pollingInterval, tableIdMapping,
                           nextTableId, storage, previousDetections, grid>>]_vars
    /\ (lastPass.op = "failed") ~> (lastPass.op = "request" \/ ~pollingActive)
    /\ [][(lastPass.op = "request" /\ lastPass'.op = "poll" /\ ~lastPass'.threw) =>
            /\ connectionStatus' = "connected"
            /\ previousDetections' = lastPass'.detections]_vars

\* a poll failed in a page that shows table A, and the next request went out
PollingRetryWitness ==
    /\ lastPass.op = "request"
    /\ lastPass.after = "failed"
    /\ connectionStatus = "disconnected"
    /\ pollingActive
    /\ KeyA \in DOMAIN tableIdMapping

\* some slot carries the transient classes
Highlighted == \E l \in DOMAIN grid : grid[l].highlight

\* C14 -- Highlight lifecycle: a render with isUpdate = true (the one step
\* that sets a 2000 ms timeout) leaves every active slot highlighted and keeps
\* the SlotId of every key it finds mapped; a highlighted grid is eventually
\* without any highlight and a shown update indicator is eventually hidden.
HighlightLifecycle ==
    /\ [][(/\ lastPass'.op = "poll"
           /\ lastPass'.rendered
           /\ timers'.highlight = timers.highlight + 1) =>
            /\ lastPass'.hasChanges
            /\ updateIndicator'
            /\ \A l \in DOMAIN grid' :
                  grid'[l].className = "active" => grid'[l].highlight
            /\ \A k \in (DOMAIN tableIdMapping)
                          \cap KeysOf(OrEmpty(lastPass'.detections)) :
                  tableIdMapping'[k] = tableIdMapping[k]]_vars
    /\ Highlighted ~> ~Highlighted
    /\ updateIndicator ~> ~updateIndicator

\* table A, mapped as 01 before the pass, was rendered with a new hand as an
\* update, and the highlight and the indicator have gone since
HighlightLifecycleWitness ==
    /\ lastPass.op = "poll"
    /\ lastPass.hasChanges
    /\ lastPass.detections = Arr(<<TableANewHand>>)
    /\ lastPass.afterCleanup = (KeyA :> <<"0", "1">>)
    /\ lastPass.evicted = {}
    /\ grid[<<"0", "1">>].detection = <<TableANewHand>>
    /\ ~Highlighted
    /\ ~updateIndicator
    /\ timers = [indicator |-> 0, highlight |-> 0]

\* C15 -- A pass that starts from an empty Map over a snapshot of
\* MAX_TABLES + 1 distinct keys leaves exactly MAX_TABLES keys with a SlotId.
SevenKeysSixIds ==
    (/\ lastPass.op = "poll"
     /\ lastPass.rendered
     /\ lastPass.afterCleanup = <<>>
     /\ Cardinality(KeysOf(OrEmpty(lastPass.detections))) = MAX_TABLES + 1)
    => Cardinality(DOMAIN tableIdMapping) = MAX_TABLES

\* C18 -- SlotId recycling: a key that a pass newly maps gets the label of
\* the counter's value taken modulo the MAX_TABLES labels, so a label in
\* 01..06 also when the counter has passed MAX_TABLES.
SlotIdRecycled ==
    [][lastPass'.op = "poll" =>
          \A k \in (DOMAIN tableIdMapping') \ (DOMAIN tableIdMapping) :
              /\ tableIdMapping'[k] \in GridLabels
              /\ \E n \in nextTableId..(nextTableId' - 1) :
                    tableIdMapping'[k] = FormatId(((n - 1) % MAX_TABLES) + 1)]_vars

\* C19 -- assignStableTableId on a mapped key returns the stored SlotId and
\* leaves the Map, the counter and the record as they are without calling
\* setItem; a pass whose snapshot holds exactly the mapped keys writes nothing.
AssignMappedFrame ==
    /\ [](\A d \in Detections :
            Key(d) \in DOMAIN tableIdMapping =>
              /\ AssignStableTableId(
                    AllocState(tableIdMapping, nextTableId, storage, storageWritable), d)
                 = AllocState(tableIdMapping, nextTableId, storage, storageWritable)
              /\ AssignedId(AssignStableTableId(
                    AllocState(tableIdMapping, nextTableId, storage, storageWritable), d), d)
                 = tableIdMapping[Key(d)])
    /\ [][(/\ lastPass' # lastPass
           /\ lastPass'.op = "poll"
           /\ KeysOf(OrEmpty(lastPass'.detections)) = DOMAIN tableIdMapping) =>
            /\ lastPass'.rendered
            /\ lastPass'.writes = 0
            /\ UNCHANGED <<tableIdMapping, nextTableId, storage>>]_vars

\* tables A and B were mapped, and a pass over B, A wrote nothing
AssignMappedFrameWitness ==
    /\ lastPass.op = "poll"
    /\ lastPass.detections = Arr(<<TableB, TableA>>)
    /\ lastPass.afterCleanup = (KeyA :> <<"0", "2">>) @@ (KeyB :> <<"0", "1">>)
    /\ lastPass.writes = 0
    /\ tableIdMapping = lastPass.afterCleanup

\* C20 -- Write-through: assignStableTableId on an unmapped key inserts
\* key -> SlotId, adds one to the counter and calls setItem once with the
\* whole record before it returns; with a writable store every slot that shows
\* a detection is labelled with the SlotId the persisted record holds for the
\* detection's key, and the record's counter is beyond that id.
WriteThrough ==
    /\ \A d \in Detections :
          Key(d) \notin DOMAIN tableIdMapping =>
            \A m2 \in {AssignStableTableId(
                          AllocState(tableIdMapping, nextTableId, storage,
                                     storageWritable), d)} :
                /\ m2.mapping = MapSet(tableIdMapping, Key(d), FormatId(nextTableId))
                /\ m2.nextId = nextTableId + 1
                /\ m2.writes = 1
                /\ storageWritable => m2.storage = StringifyRecord(m2.mapping, m2.nextId)
    /\ storageWritable =>
          \A l \in DOMAIN grid :
              grid[l].className = "active" =>
                /\ storage.kind = "json"
                /\ Key(grid[l].detection[1]) \in DOMAIN storage.mapping
                /\ storage.mapping[Key(grid[l].detection[1])] = l
                /\ \E n \in 1..(storage.nextId - 1) : FormatId(n) = l

\* tables A and B were allocated in one pass: two writes, and the record
\* holds both pairs and the counter 3
WriteThroughWitness ==
    /\ lastPass.op = "poll"
    /\ lastPass.writes = 2
    /\ lastPass.afterCleanup = <<>>
    /\ grid[<<"0", "1">>].detection = <<TableB>>
    /\ grid[<<"0", "2">>].detection = <<TableA>>
    /\ storage = StringifyRecord((KeyA :> <<"0", "2">>) @@ (KeyB :> <<"0", "1">>), 3)

\* C17 -- SSE reconnect: no EventSource other than the one the global refers
\* to is open or connecting; while that one is closed a 3000 ms timeout is
\* pending, the timeout that finds it closed runs initializeSSE, and so a
\* closed stream is eventually connecting again.
SSEReconnect ==
    /\ [](sse.others.connecting + sse.others.open = 0)
    /\ [](sse.eventSource = "closed" => sse.timers.reconnect > 0)
    /\ [][(/\ sse.eventSource = "closed"
           /\ sse'.timers.reconnect = sse.timers.reconnect - 1) =>
            /\ sse'.eventSource = "connecting"
            /\ sse'.connectionStatus = "connecting"]_vars
    /\ (sse.eventSource = "closed") ~> (sse.eventSource = "connecting")

\* a stream that had delivered table A broke down, and the timeout has run
\* initializeSSE
SSEReconnectWitness ==
    /\ sse.last = "reconnect"
    /\ sse.eventSource = "connecting"
    /\ sse.previousDetections = Arr(<<TableA>>)
    /\ sse.timers.reconnect = 0

\* the Map f without the keys outside S
Restrict(f, S) == [k \in (DOMAIN f) \cap S |-> f[k]]

\* C21 -- cleanupStaleTableMappings removes exactly the keys that the
\* snapshot lacks and leaves the other pairs and the counter alone; it calls
\* setItem (once, with the record of what is left) if and only if it removed a
\* key; when every mapped key is active nothing at all changes.
CleanupFrame ==
    \A p \in Payloads :
      \A m \in {AllocState(tableIdMapping, nextTableId, storage, storageWritable)} :
        \A m2 \in {CleanupStaleTableMappings(m, OrEmpty(p))} :
            /\ m2.mapping = Restrict(tableIdMapping, KeysOf(OrEmpty(p)))
            /\ m2.nextId = nextTableId
            /\ ~m2.threw
            /\ m2.writes = IF (DOMAIN tableIdMapping) \subseteq KeysOf(OrEmpty(p))
                           THEN 0 ELSE 1
            /\ (m2.writes = 1 /\ storageWritable) =>
                    m2.storage = StringifyRecord(m2.mapping, nextTableId)
            /\ m2.writes = 0 => m2 = m

\* a pass over table A alone removed table B and wrote the record once
CleanupFrameWitness ==
    /\ lastPass.op = "poll"
    /\ lastPass.detections = Arr(<<TableA>>)
    /\ lastPass.evicted = {KeyB}
    /\ lastPass.writes = 1
    /\ storage = StringifyRecord(KeyA :> <<"0", "1">>, 3)

\* C22 -- Cleanup runs once per pass and before the pass's assignments: the
\* Map it leaves is the restriction of the Map before the pass to the keys of
\* the snapshot, the pass writes once for the eviction and once per new key,
\* and no key newly mapped by the pass gets a SlotId that a key evicted by the
\* same pass held.
CleanupBeforeAssign ==
    [][(lastPass' # lastPass /\ lastPass'.op = "poll" /\ lastPass'.rendered) =>
          /\ lastPass'.afterCleanup
                = Restrict(tableIdMapping, KeysOf(OrEmpty(lastPass'.detections)))
          /\ lastPass'.evicted
                = (DOMAIN tableIdMapping) \ KeysOf(OrEmpty(lastPass'.detections))
          /\ lastPass'.writes
                = (IF lastPass'.evicted = {} THEN 0 ELSE 1)
                  + Cardinality((DOMAIN tableIdMapping') \ (DOMAIN tableIdMapping))
          /\ \A k \in (DOMAIN tableIdMapping') \ (DOMAIN tableIdMapping) :
                \A e \in lastPass'.evicted : tableIdMapping'[k] # tableIdMapping[e]]_vars

\* one pass evicted table A, which held 01, and mapped table B, as 02
CleanupBeforeAssignWitness ==
    /\ lastPass.op = "poll"
    /\ lastPass.detections = Arr(<<TableB>>)
    /\ lastPass.evicted = {KeyA}
    /\ lastPass.afterCleanup = <<>>
    /\ lastPass.writes = 2
    /\ tableIdMapping = (KeyB :> <<"0", "2">>)

\* C23 -- Within a session (no reload) the counter never decreases: a pass
\* adds one per key it newly maps, also when it evicts every key, and no other
\* step changes it.
CounterMonotonic ==
    [][initialized =>
          /\ initialized' => nextTableId' >= nextTableId
          /\ (lastPass' # lastPass /\ lastPass'.op = "poll") =>
                nextTableId' = nextTableId
                    + Cardinality(KeysOf(OrEmpty(lastPass'.detections))
                                  \ (DOMAIN tableIdMapping))
          /\ (initialized' /\ ~(lastPass' # lastPass /\ lastPass'.op = "poll")) =>
                nextTableId' = nextTableId]_vars

\* an empty snapshot evicted both tables and the counter stayed at 3
CounterMonotonicWitness ==
    /\ lastPass.op = "poll"
    /\ OrEmpty(lastPass.detections) = <<>>
    /\ lastPass.evicted = {KeyA, KeyB}
    /\ tableIdMapping = <<>>
    /\ nextTableId = 3
    /\ storage = StringifyRecord(<<>>, 3)

\* C30 -- A response without `detections` is handled as an empty snapshot:
\* the pass completes without entering the catch, the status is connected and
\* previousDetections is the delivered value.
MissingDetectionsHandled ==
    (lastPass.op = "poll" /\ ~lastPass.detections.defined) =>
        /\ ~lastPass.threw
        /\ connectionStatus = "connected"
        /\ previousDetections = lastPass.detections

\* C25 -- stopPolling cancels no request: the step that stops polling leaves
\* the fetches under way, the ETag, the Map, the counter, the store, the grid
\* and the previous snapshot as they were; a 200 response that arrives while
\* polling is stopped is processed in full (ETag stored, snapshot diffed
\* against the previous one, painted, made the previous one, status
\* connected); and the step that starts polling again issues a request and
\* keeps ETag, Map, counter and previous snapshot.
StopKeepsInFlight ==
    [][/\ (initialized' /\ pollingActive /\ ~pollingActive') =>
            UNCHANGED <<inFlight, lastETag, tableIdMapping, nextTableId, storage,
                        grid, previousDetections>>
       /\ (initialized' /\ ~pollingActive /\ inFlight' = inFlight - 1
                        /\ lastPass'.op = "poll") =>
            /\ lastETag' = lastPass'.etag
            /\ lastPass'.hasChanges
                    = DetectChanges(lastPass'.detections, previousDetections)
            /\ lastPass'.rendered
            /\ \A id \in DOMAIN lastPass'.detectionMap :
                    grid'[id] = ActiveSlot(lastPass'.detectionMap[id],
                                           lastPass'.hasChanges)
            /\ ~lastPass'.threw =>
                    /\ previousDetections' = lastPass'.detections
                    /\ connectionStatus' = "connected"
       /\ (initialized /\ ~pollingActive /\ pollingActive') =>
            /\ inFlight' = inFlight + 1
            /\ UNCHANGED <<lastETag, tableIdMapping, nextTableId, storage, grid,
                           previousDetections>>]_vars

\* the page is hidden and polling stopped, and the response to the request
\* that was under way has been stored, painted and made the previous snapshot
StopKeepsInFlightWitness ==
    /\ hidden
    /\ ~pollingActive
    /\ lastPass.op = "poll"
    /\ lastPass.detections = Arr(<<TableA>>)
    /\ lastETag = "v1"
    /\ previousDetections = Arr(<<TableA>>)
    /\ connectionStatus = "connected"
    /\ grid[<<"0", "1">>] = ActiveSlot(TableA, TRUE)

\* C26 -- While the timeout of a later update render is pending, the firing
\* of the older timeout takes the highlight from no slot.
OlderTimerSparesNewHighlight ==
    [][(timers.highlight >= 2 /\ timers'.highlight = timers.highlight - 1) =>
          \A l \in DOMAIN grid : grid[l].highlight => grid'[l].highlight]_vars

\* C28 -- In the SSE dashboard a message that does not parse, or whose type
\* is connected, heartbeat or unknown, changes nothing of the page: previous
\* snapshot, content, highlight, indicator, timeouts, status and connection
\* stay, and nothing is raised out of the handler; a detection_update makes
\* its snapshot the content and the previous snapshot.
OnlyDetectionUpdateReconciles ==
    [][/\ sse'.last \in {"unparseable", "connected", "heartbeat", "unknown"} =>
            sse' = [sse EXCEPT !.last = sse'.last]
       /\ (sse' # sse /\ sse'.last = "detection_update") =>
            /\ sse'.previousDetections \in NetPayloads
            /\ sse'.content = OrEmpty(sse'.previousDetections)
            /\ sse'.highlight
                    = (sse'.content # <<>>
                       /\ DetectChanges(sse'.previousDetections, sse.previousDetections))
      ]_vars

\* a message that is not JSON arrived while table A was shown
OnlyDetectionUpdateReconcilesWitness ==
    /\ sse.last = "unparseable"
    /\ sse.eventSource = "open"
    /\ sse.previousDetections = Arr(<<TableA>>)
    /\ sse.content = <<TableA>>
    /\ sse.highlight

\* C24 -- Passes do not interleave: while the statements of one pass are
\* under way, with further requests and responses pending, every step is the
\* next statement of that pass over the same snapshot (or its end), no other
\* handler runs, the pass's hasChanges is still the difference to the previous
\* snapshot, and once painted the grid shows that pass's snapshot until the
\* pass has made it the previous snapshot.
PassesDoNotInterleave ==
    /\ [][loop.task.pc # "idle" =>
            /\ UNCHANGED <<inFlight, lastETag, pollingInterval, pollingActive>>
            /\ loop'.parsing = loop.parsing
            /\ \/ loop'.task = Idle
               \/ /\ loop'.task.pc # "idle"
                  /\ loop'.task.detections = loop.task.detections
                  /\ loop'.task.hasChanges = loop.task.hasChanges
                  /\ <<loop.task.pc, loop'.task.pc>>
                        \in {<<"render", "navigation">>, <<"navigation", "previous">>}
            /\ loop.task.pc = "previous" =>
                  /\ previousDetections' = loop.task.detections
                  /\ UNCHANGED <<grid, tableIdMapping, nextTableId>>]_vars
    /\ [](loop.task.pc # "idle" =>
            loop.task.hasChanges
                = DetectChanges(loop.task.detections, previousDetections))
    /\ [](loop.task.pc \in {"navigation", "previous"} =>
            \A i \in DOMAIN OrEmpty(loop.task.detections) :
                \E l \in DOMAIN grid :
                    grid[l] = ActiveSlot(OrEmpty(loop.task.detections)[i],
                                         loop.task.hasChanges))

\* a pass over table A has painted and not yet finished while a request is
\* under way and the body of another response is being read
PassesDoNotInterleaveWitness ==
    /\ loop.task.pc = "navigation"
    /\ loop.task.detections = Arr(<<TableA>>)
    /\ inFlight >= 1
    /\ Len(loop.parsing) >= 1
    /\ previousDetections = Arr(<<>>)

\* the step is a pass of the polling dashboard
PollPass ==
    /\ initialized
    /\ lastPass'.op = "poll"
    /\ pollVars' # pollVars
    /\ timers'.indicator >= timers.indicator
    /\ timers'.highlight >= timers.highlight

\* the step is a pass of the page p, last being what its handler records
PagePass(p, last) ==
    /\ p' # p
    /\ p'.last = last
    /\ p'.timers.indicator >= p.timers.indicator
    /\ p'.timers.highlight >= p.timers.highlight

\* after a pass of the page p its content and previous snapshot are the
\* snapshot delivered; a snapshot equal to the one before is painted without
\* highlight, and sets no timeout
PageRepaint(p) ==
    /\ p'.previousDetections \in NetPayloads
    /\ p'.content = OrEmpty(p'.previousDetections)
    /\ ~DetectChanges(p'.previousDetections, p.previousDetections) =>
            /\ ~p'.highlight
            /\ p'.timers = p.timers

\* C27 -- A snapshot identical to the previous one is repainted with
\* isUpdate = false: after the pass no slot carries a highlight flag, and the
\* pass neither shows the update indicator nor sets a timeout (the indicator
\* stays as it was); after every completed pass of the polling, the SSE and
\* the push-socket page previousDetections is the snapshot just rendered.
IdenticalSnapshotRepaint ==
    [][/\ (PollPass /\ lastPass'.rendered /\ ~lastPass'.hasChanges) =>
            /\ \A l \in DOMAIN grid' : ~grid'[l].highlight
            /\ \A l \in DOMAIN lastPass'.detectionMap :
                    grid'[l] = ActiveSlot(lastPass'.detectionMap[l], FALSE)
            /\ updateIndicator' = updateIndicator
            /\ timers' = timers
       /\ (PollPass /\ ~lastPass'.threw) =>
            /\ previousDetections' = lastPass'.detections
            /\ \A d \in {lastPass'.detections.items[i] :
                            i \in DOMAIN lastPass'.detections.items} :
                    \E l \in DOMAIN grid' : grid'[l].detection = <<d>>
       /\ PagePass(sse, "detection_update") =>
            /\ PageRepaint(sse)
            /\ ~DetectChanges(sse'.previousDetections, sse.previousDetections) =>
                    sse'.updateIndicator = sse.updateIndicator
       /\ PagePass(sock, "update") =>
            /\ PageRepaint(sock)
            /\ ~DetectChanges(sock'.previousDetections, sock.previousDetections) =>
                    sock'.updateIndicator = sock.updateIndicator]_vars

\* table A was delivered again less than 1000 ms after it first appeared:
\* slot 01 is repainted without highlight and the indicator is still shown
IdenticalSnapshotRepaintWitness ==
    /\ lastPass.op = "poll"
    /\ ~lastPass.hasChanges
    /\ lastPass.detections = Arr(<<TableA>>)
    /\ previousDetections = Arr(<<TableA>>)
    /\ grid[<<"0", "1">>] = ActiveSlot(TableA, FALSE)
    /\ updateIndicator
    /\ timers.indicator = 1

\* C27 as stated -- after a pass over a snapshot identical to the previous
\* one no slot carries a highlight flag and the update indicator is not
\* shown; after every completed pass previousDetections is the snapshot just
\* rendered.
IdenticalSnapshotNoIndicator ==
    [][/\ (PollPass /\ lastPass'.rendered /\ ~lastPass'.hasChanges) =>
            /\ \A l \in DOMAIN grid' : ~grid'[l].highlight
            /\ ~updateIndicator'
       /\ (PollPass /\ ~lastPass'.threw) =>
            previousDetections' = lastPass'.detections
       /\ PagePass(sse, "detection_update") =>
            /\ PageRepaint(sse)
            /\ ~DetectChanges(sse'.previousDetections, sse.previousDetections) =>
                    ~sse'.updateIndicator
       /\ PagePass(sock, "update") =>
            /\ PageRepaint(sock)
            /\ ~DetectChanges(sock'.previousDetections, sock.previousDetections) =>
                    ~sock'.updateIndicator]_vars

\* C29 -- In the push-socket view a client_detection_update of another
\* client changes nothing of the page (content, highlight, indicator,
\* timeouts, previous snapshot); a disconnect sets one 3000 ms timeout, and
\* when it fires a socket that is not connected is told to connect, while a
\* connected socket is left alone.
ForeignUpdateIgnored ==
    [][/\ sock'.last = "foreign" => sock' = [sock EXCEPT !.last = "foreign"]
       /\ (sock.socket = "connected" /\ sock'.socket = "disconnected") =>
            sock'.timers.reconnect = sock.timers.reconnect + 1
       /\ sock'.timers.reconnect < sock.timers.reconnect =>
            /\ sock'.timers.reconnect = sock.timers.reconnect - 1
            /\ sock'.socket = IF sock.socket = "connected" THEN "connected"
                              ELSE "connecting"
            /\ sock'.last = IF sock.socket = "connected" THEN "timer"
                            ELSE "reconnect"]_vars

\* the view of client A shows table A and has just ignored an event of
\* client B
ForeignUpdateIgnoredWitness ==
    /\ sock.last = "foreign"
    /\ sock.socket = "connected"
    /\ sock.previousDetections = Arr(<<TableA>>)
    /\ sock.content = <<TableA>>
    /\ ~sock.updateIndicator

\* C31 -- After every completed pass the Map's keys are exactly the distinct
\* keys of the snapshot just rendered, and in a writable store the record is
\* that of the Map and the counter in memory; there is no record only while
\* nothing has ever been allocated or evicted (empty Map, counter 1).
MappingMirrorsSnapshot ==
    (lastPass.op = "poll" /\ lastPass.rendered) =>
        /\ DOMAIN tableIdMapping = KeysOf(OrEmpty(lastPass.detections))
        /\ storageWritable =>
              \/ storage = StringifyRecord(tableIdMapping, nextTableId)
              \/ /\ storage = NoRecord
                 /\ tableIdMapping = <<>>
                 /\ nextTableId = 1

\* in a writable store a pass over table B alone evicted table A and mapped
\* table B: Map and record hold B only, the counter is 3
MappingMirrorsSnapshotWitness ==
    /\ storageWritable
    /\ lastPass.op = "poll"
    /\ lastPass.rendered
    /\ lastPass.evicted = {KeyA}
    /\ DOMAIN tableIdMapping = {KeyB}
    /\ nextTableId = 3
    /\ storage = StringifyRecord(tableIdMapping, 3)

\* C33 -- However initialize, visibilitychange and pageshow interleave,
\* pollingActive is true exactly when an interval timer that polls is
\* registered, there is never more than one, and startPolling while polling
\* is active registers no timer, issues no request and leaves the status.
PollingTimerMatchesFlag ==
    /\ [](pollingInterval <= 1 /\ (pollingActive <=> pollingInterval = 1))
    /\ [][(/\ pollingActive
           /\ lastPass' # lastPass
           /\ lastPass'.op \in {"start", "visible", "pageshow"}) =>
            UNCHANGED <<pollingActive, pollingInterval, inFlight,
                        connectionStatus>>]_vars

\* the page was shown while initialize() was suspended, which started
\* polling; initialize() then resumed and its startPolling did nothing
PollingTimerMatchesFlagWitness ==
    /\ lastPass.op = "start"
    /\ lastPass.wasActive
    /\ initialized
    /\ pollingActive
    /\ pollingInterval = 1
    /\ inFlight = 1
    /\ ~hidden
    /\ lastETag = NoETag
    /\ connectionStatus = "connecting"

\* C32 -- Whenever no poll is under way (no fetch pending, no body being
\* read, no pass running) and a snapshot has been rendered, lastETag is the
\* ETag of the response whose snapshot was rendered last.
TokenNamesDisplayed ==
    (/\ inFlight = 0
     /\ loop.parsing = <<>>
     /\ loop.task = Idle
     /\ loop.shown # "none") => lastETag = loop.shown

\* C34 -- Key injectivity: two detections of a rendered snapshot whose
\* (client_id, window_name) pairs differ have different keys and different
\* SlotIds, and the grid shows both.
KeyInjective ==
    (lastPass.op = "poll" /\ lastPass.rendered) =>
        \A i, j \in DOMAIN OrEmpty(lastPass.detections) :
            LET a == OrEmpty(lastPass.detections)[i]
                b == OrEmpty(lastPass.detections)[j]
            IN  <<a.client_id, a.window_name>> # <<b.client_id, b.window_name>> =>
                    /\ Key(a) # Key(b)
                    /\ \E la, lb \in DOMAIN lastPass.detectionMap :
                          /\ la # lb
                          /\ lastPass.detectionMap[la] = a
                          /\ lastPass.detectionMap[lb] = b

\* C35 -- Deterministic allocation: the keys a pass newly maps get their
\* SlotIds in the order of their first appearance in the snapshot (the earlier
\* key the lower id), whatever the order of the comparator's calls, so that the
\* Map after the pass is a function of the state before it and the snapshot.
AllocationFollowsSnapshotOrder ==
    (lastPass.op = "poll" /\ lastPass.rendered) =>
        \A i, j \in DOMAIN OrEmpty(lastPass.detections) :
            LET a == Key(OrEmpty(lastPass.detections)[i])
                b == Key(OrEmpty(lastPass.detections)[j])
            IN  (/\ i < j
                 /\ a # b
                 /\ a \notin DOMAIN lastPass.afterCleanup
                 /\ b \notin DOMAIN lastPass.afterCleanup) =>
                    LocaleCompare(tableIdMapping[a], tableIdMapping[b]) < 0

====
